---- MODULE Spec2Model ----
(***************************************************************************)
(* Model of the S2 (inner-goods photo) pipeline of HY-export, of the S1    *)
(* (work photo) copy step and of the report:                               *)
(*   image_grouping.py  list_images / _check_count_and_confirm /           *)
(*                      group_images                                       *)
(*   naming_rules.py    extract_id_lot_tag                                 *)
(*   excel_builder.py   create_excel_template                              *)
(*   main.py            BatchApp.run_s2_batch / _worker_s2 / _rename_images*)
(*                      BatchApp.run_s1_batch / _worker_s1                 *)
(*   processing_core.py sanitize / ensure_unique / list_images /           *)
(*                      process_step1                                      *)
(*   report.py          generate_report                                    *)
(*                                                                         *)
(* Python strings are sequences of one-character strings, so that          *)
(* searching, upper-casing, splitting and concatenation are computed.      *)
(* OCR confidences are integers in percent (0.30 is 30).                   *)
(***************************************************************************)
EXTENDS Integers, Sequences, FiniteSets, TLC

VARIABLES
    pc,               \* position of the running handler
    folder_exists,    \* s2_image_folder.exists()
    folder,           \* directory listing: file names in enumeration order
    pack_mode,        \* self.pack_mode.get()
    s1_lookup_data,   \* self.s1_lookup_data: SN -> row of the S1 sheet
    groups,           \* result of group_images
    dialogs,          \* message boxes shown so far, in order
    df,               \* the result table (one record per row)
    saved,            \* df.to_excel has run
    sn,               \* loop variable of _worker_s2
    final_ocr_texts,  \* per-set OCR texts
    scores,           \* per-set positive OCR confidences
    id_val, lot, tag1, tag2, needs_inspection,   \* locals of _worker_s2
    new_names,        \* local of _rename_images
    k,                \* position of the zip loop of _rename_images
    log,              \* log_print lines of level ERROR about renames and copies
    text,             \* argument of extract_id_lot_tag or sanitize (function harness)
    ext,              \* result of extract_id_lot_tag (function harness)
    out_dir,          \* listing of the output directory of process_step1
    image_count,      \* argument of generate_report (function harness); the
                      \* image files counted when a batch starts (SpecRenamed)
    ret,              \* what the called function returned (function harness)
    s1_sheet,         \* the S1 workbook: whether load_workbook reads it, its rows
    excel_data, s1_files, processed_count,   \* locals of process_step1
    workers,          \* the _worker_s1 threads started so far (position, locals)
    pair_mode,        \* argument of process_step2
    copies            \* the safe_copy calls of process_step2 done so far: (src, dst)

vars == <<pc, folder_exists, folder, pack_mode, s1_lookup_data, groups, dialogs,
          df, saved, sn, final_ocr_texts, scores, id_val, lot, tag1, tag2,
          needs_inspection, new_names, k, log, text, ext, out_dir, image_count,
          ret, s1_sheet, excel_data, s1_files, processed_count, workers,
          pair_mode, copies>>

----------------------------------------------------------------------------
(* Characters and strings                                                  *)

LowerLetters == <<"a","b","c","d","e","f","g","h","i","j","k","l","m",
                  "n","o","p","q","r","s","t","u","v","w","x","y","z">>
UpperLetters == <<"A","B","C","D","E","F","G","H","I","J","K","L","M",
                  "N","O","P","Q","R","S","T","U","V","W","X","Y","Z">>
DigitChars == <<"0","1","2","3","4","5","6","7","8","9">>

UpperSet == {UpperLetters[i] : i \in 1..Len(UpperLetters)}
LowerSet == {LowerLetters[i] : i \in 1..Len(LowerLetters)}
DigitSet == {DigitChars[i] : i \in 1..Len(DigitChars)}

IsUpperLetter(c) == c \in UpperSet
IsLowerLetter(c) == c \in LowerSet
IsDigit(c) == c \in DigitSet

\* str.upper() / str.lower(), character by character
UpperChar(c) ==
    IF IsLowerLetter(c)
    THEN UpperLetters[CHOOSE i \in 1..Len(LowerLetters) : LowerLetters[i] = c]
    ELSE c
LowerChar(c) ==
    IF IsUpperLetter(c)
    THEN LowerLetters[CHOOSE i \in 1..Len(UpperLetters) : UpperLetters[i] = c]
    ELSE c
Upper(s) == [i \in 1..Len(s) |-> UpperChar(s[i])]
Lower(s) == [i \in 1..Len(s) |-> LowerChar(s[i])]

\* str(n) for a natural number
RECURSIVE IntToStr(_)
IntToStr(n) ==
    IF n < 10 THEN <<DigitChars[n + 1]>>
    ELSE IntToStr(n \div 10) \o <<DigitChars[(n % 10) + 1]>>

\* s.split("-")
RECURSIVE SplitDash(_)
SplitDash(s) ==
    IF \E i \in 1..Len(s) : s[i] = "-"
    THEN LET i == CHOOSE j \in 1..Len(s) :
                     s[j] = "-" /\ \A h \in 1..(j - 1) : s[h] # "-"
         IN <<SubSeq(s, 1, i - 1)>> \o SplitDash(SubSeq(s, i + 1, Len(s)))
    ELSE <<s>>

----------------------------------------------------------------------------
(* naming_rules.py                                                         *)

\* A pattern is a sequence of character classes: "L" is [A-Z], "D" is \d,
\* anything else is that literal character.
PATTERN_FULL == <<"L","L","L","-","D","D","D","D","-","D","D","D","D">>
PATTERN_TAG  == <<"L","L","L","-","D","D","D","D","-","D","D","D","D","D">>

ClassMatch(cls, c) ==
    CASE cls = "L" -> IsUpperLetter(c)
      [] cls = "D" -> IsDigit(c)
      [] OTHER -> c = cls

MatchesAt(pat, t, i) ==
    /\ i + Len(pat) - 1 <= Len(t)
    /\ \A j \in 1..Len(pat) : ClassMatch(pat[j], t[i + j - 1])

\* Python None and a present value
None == [some |-> FALSE, val |-> <<>>]
Some(v) == [some |-> TRUE, val |-> v]
\* x or ""
OrEmpty(x) == IF x.some /\ x.val # <<>> THEN x.val ELSE <<>>

\* The first position from i on where pat matches t, or 0
RECURSIVE FindFrom(_, _, _)
FindFrom(pat, t, i) ==
    IF i + Len(pat) - 1 > Len(t) THEN 0
    ELSE IF MatchesAt(pat, t, i) THEN i
    ELSE FindFrom(pat, t, i + 1)

\* pat.search(t): the leftmost match, m.group(0), or None
Search(pat, t) ==
    LET i == FindFrom(pat, t, 1)
    IN IF i = 0 THEN None ELSE Some(SubSeq(t, i, i + Len(pat) - 1))

\* extract_id_lot_tag only takes the id of the lot when the tag gave none;
\* this variant lets the lot's id win.
extract_id_lot_tag_LotFirst(txt) ==
    IF txt = <<>> THEN [id |-> <<>>, lot |-> <<>>, tag |-> <<>>]
    ELSE LET t == Upper(txt)
             m_tag == Search(PATTERN_TAG, t)
             m_lot == Search(PATTERN_FULL, t)
             id0 == IF m_lot.some THEN Some(SplitDash(m_lot.val)[2])
                    ELSE IF m_tag.some THEN Some(SplitDash(m_tag.val)[2])
                    ELSE None
         IN [id |-> OrEmpty(id0), lot |-> OrEmpty(m_lot), tag |-> OrEmpty(m_tag)]

extract_id_lot_tag(txt) ==
    IF txt = <<>> THEN [id |-> <<>>, lot |-> <<>>, tag |-> <<>>]
    ELSE LET t == Upper(txt)
             m_tag == Search(PATTERN_TAG, t)
             tag == IF m_tag.some THEN m_tag ELSE None
             id1 == IF m_tag.some THEN Some(SplitDash(tag.val)[2]) ELSE None
             m_lot == Search(PATTERN_FULL, t)
             lot0 == IF m_lot.some THEN m_lot ELSE None
             id2 == IF m_lot.some /\ ~id1.some
                    THEN Some(SplitDash(lot0.val)[2]) ELSE id1
         IN [id |-> OrEmpty(id2), lot |-> OrEmpty(lot0), tag |-> OrEmpty(tag)]

----------------------------------------------------------------------------
(* image_grouping.py                                                       *)

IMG_EXTS == { <<".","j","p","g">>, <<".","j","p","e","g">>, <<".","p","n","g">>,
              <<".","b","m","p">>, <<".","t","i","f">>, <<".","t","i","f","f">>,
              <<".","w","e","b","p">> }

\* The characters of the model in code point order, for str < str
CharOrder == <<" ", "(", ")", ",", "-", ".">> \o DigitChars \o UpperLetters
             \o <<"_">> \o LowerLetters
Ord(c) == CHOOSE i \in 1..Len(CharOrder) : CharOrder[i] = c

RECURSIVE StrLess(_, _)
StrLess(a, b) ==
    IF a = <<>> THEN b # <<>>
    ELSE IF b = <<>> THEN FALSE
    ELSE IF a[1] # b[1] THEN Ord(a[1]) < Ord(b[1])
    ELSE StrLess(Tail(a), Tail(b))

RECURSIVE StrToInt(_)
StrToInt(d) ==
    IF d = <<>> THEN 0
    ELSE 10 * StrToInt(SubSeq(d, 1, Len(d) - 1))
         + ((CHOOSE i \in 1..10 : DigitChars[i] = d[Len(d)]) - 1)

\* pathlib.PurePath.suffix of a file name: from the last dot, when that dot
\* is neither the first nor the last character
Suffix(name) ==
    IF \E i \in 2..(Len(name) - 1) : name[i] = "."
       /\ name[Len(name)] # "."
    THEN LET i == CHOOSE j \in 2..Len(name) :
                     name[j] = "." /\ \A h \in (j + 1)..Len(name) : name[h] # "."
         IN SubSeq(name, i, Len(name))
    ELSE <<>>

\* Length of the longest prefix of s whose characters are all digits
\* (isd = TRUE) or all non-digits (isd = FALSE)
RunLen(s, isd) ==
    CHOOSE n \in 0..Len(s) :
        /\ \A i \in 1..n : IsDigit(s[i]) = isd
        /\ n = Len(s) \/ IsDigit(s[n + 1]) # isd

\* re.split(r'(\d+)', s): non-digit run, digit run, non-digit run, ...
RECURSIVE ReSplitDigits(_)
ReSplitDigits(s) ==
    LET a == RunLen(s, FALSE)
        rest == SubSeq(s, a + 1, Len(s))
        d == RunLen(rest, TRUE)
    IN IF rest = <<>> THEN <<SubSeq(s, 1, a)>>
       ELSE <<SubSeq(s, 1, a), SubSeq(rest, 1, d)>>
            \o ReSplitDigits(SubSeq(rest, d + 1, Len(rest)))

\* s.isdigit() on a token of the split
TokIsDigit(tok) == tok # <<>> /\ \A i \in 1..Len(tok) : IsDigit(tok[i])

\* _natural_sort_key that keeps the digit runs as text
_natural_sort_key_DigitsAsText(s) ==
    LET parts == ReSplitDigits(s)
    IN [i \in 1..Len(parts) |-> [isnum |-> FALSE, n |-> 0, s |-> Lower(parts[i])]]

_natural_sort_key(s) ==
    LET parts == ReSplitDigits(s)
    IN [i \in 1..Len(parts) |->
          IF TokIsDigit(parts[i])
          THEN [isnum |-> TRUE, n |-> StrToInt(parts[i]), s |-> <<>>]
          ELSE [isnum |-> FALSE, n |-> 0, s |-> Lower(parts[i])]]

\* Python's < on two elements of a key that stand at the same position
TokLess(a, b) == IF a.isnum THEN a.n < b.n ELSE StrLess(a.s, b.s)

\* list < list: the first position where the elements differ decides
RECURSIVE KeyLess(_, _)
KeyLess(x, y) ==
    IF x = <<>> THEN y # <<>>
    ELSE IF y = <<>> THEN FALSE
    ELSE IF x[1] # y[1] THEN TokLess(x[1], y[1])
    ELSE KeyLess(Tail(x), Tail(y))

\* list.sort(key=...): the stable sort by key. The element at position i
\* of the input ends after every element whose key is smaller, and after
\* every earlier element whose key is not greater.  (\o <<>> makes TLC
\* compute the keys and the places once.)
SortStable(l) ==
    LET n == Len(l)
        keys == [i \in 1..n |-> _natural_sort_key(l[i])] \o <<>>
        Before(j, i) ==
            \/ KeyLess(keys[j], keys[i])
            \/ j < i /\ ~KeyLess(keys[i], keys[j])
        place == [i \in 1..n |->
                    Cardinality({j \in 1..n : j # i /\ Before(j, i)}) + 1] \o <<>>
    IN [r \in 1..n |-> l[CHOOSE i \in 1..n : place[i] = r]] \o <<>>

\* list_images: the image files of the listing, naturally sorted by name
list_images(listing) ==
    LET idx == {i \in 1..Len(listing) : Lower(Suffix(listing[i])) \in IMG_EXTS}
        RECURSIVE Pick(_)
        Pick(i) == IF i > Len(listing) THEN <<>>
                   ELSE (IF i \in idx THEN <<listing[i]>> ELSE <<>>) \o Pick(i + 1)
    IN SortStable(Pick(1))

RECOMMENDED_1PACK == 40
RECOMMENDED_2PACK == 60

\* _check_count_and_confirm that goes on whatever the answer to askyesno is
_check_count_and_confirm_AnswerIgnored(total, mode, ans) ==
    IF total % (IF mode = "1PACK" THEN 2 ELSE 3) # 0
    THEN [ok |-> FALSE, shown |-> <<"showerror_count">>]
    ELSE IF total # (IF mode = "1PACK" THEN RECOMMENDED_1PACK ELSE RECOMMENDED_2PACK)
    THEN [ok |-> TRUE, shown |-> <<IF ans THEN "askyesno_yes" ELSE "askyesno_no">>]
    ELSE [ok |-> TRUE, shown |-> <<>>]

\* _check_count_and_confirm; ans is the user's answer to askyesno when asked
_check_count_and_confirm(total, mode, ans) ==
    IF mode = "1PACK" THEN
        IF total % 2 # 0 THEN [ok |-> FALSE, shown |-> <<"showerror_count">>]
        ELSE IF total # RECOMMENDED_1PACK
             THEN [ok |-> ans,
                   shown |-> <<IF ans THEN "askyesno_yes" ELSE "askyesno_no">>]
             ELSE [ok |-> TRUE, shown |-> <<>>]
    ELSE IF mode = "2PACK" THEN
        IF total % 3 # 0 THEN [ok |-> FALSE, shown |-> <<"showerror_count">>]
        ELSE IF total # RECOMMENDED_2PACK
             THEN [ok |-> ans,
                   shown |-> <<IF ans THEN "askyesno_yes" ELSE "askyesno_no">>]
             ELSE [ok |-> TRUE, shown |-> <<>>]
    ELSE [ok |-> FALSE, shown |-> <<"showerror_mode">>]

\* step of group_images
Step(mode) == IF mode = "1PACK" THEN 2 ELSE 3

\* for i in range(0, total, step): files[i:i+step], kept when it is full
RECURSIVE Chunks(_, _)
Chunks(files, step) ==
    IF files = <<>> THEN <<>>
    ELSE LET n == IF Len(files) < step THEN Len(files) ELSE step
             group == SubSeq(files, 1, n)
         IN (IF Len(group) = step THEN <<group>> ELSE <<>>)
            \o Chunks(SubSeq(files, n + 1, Len(files)), step)

\* The loop keeps a short last group
RECURSIVE ChunksKeepPartial(_, _)
ChunksKeepPartial(files, step) ==
    IF files = <<>> THEN <<>>
    ELSE LET n == IF Len(files) < step THEN Len(files) ELSE step
         IN <<SubSeq(files, 1, n)>>
            \o ChunksKeepPartial(SubSeq(files, n + 1, Len(files)), step)

\* The count check accepts every count
group_images_NoCheck(listing, mode, ans) ==
    LET files == list_images(listing)
    IN IF Len(files) = 0 THEN [groups |-> <<>>, shown |-> <<"showwarning_empty">>]
       ELSE [groups |-> ChunksKeepPartial(files, Step(mode)), shown |-> <<>>]

\* The slices start one file late
group_images_Shifted(listing, mode, ans) ==
    LET files == list_images(listing)
        total == Len(files)
        chk == _check_count_and_confirm(total, mode, ans)
    IN IF total = 0 THEN [groups |-> <<>>, shown |-> <<"showwarning_empty">>]
       ELSE IF ~chk.ok THEN [groups |-> <<>>, shown |-> chk.shown]
       ELSE [groups |-> Chunks(Tail(files) \o <<files[1]>>, Step(mode)),
             shown |-> chk.shown]

group_images(listing, mode, ans) ==
    LET files == list_images(listing)
        total == Len(files)
        chk == _check_count_and_confirm(total, mode, ans)
    IN IF total = 0 THEN [groups |-> <<>>, shown |-> <<"showwarning_empty">>]
       ELSE IF ~chk.ok THEN [groups |-> <<>>, shown |-> chk.shown]
       ELSE [groups |-> Chunks(files, Step(mode)), shown |-> chk.shown]

----------------------------------------------------------------------------
(* Values the variables hold while a handler that uses them is not running *)

NoExt == [id |-> <<>>, lot |-> <<>>, tag |-> <<>>]

LocalsIdle ==
    /\ sn = 0 /\ final_ocr_texts = <<>> /\ scores = <<>>
    /\ id_val = <<>> /\ lot = <<>> /\ tag1 = <<>> /\ tag2 = <<>>
    /\ needs_inspection = FALSE /\ new_names = <<>> /\ k = 0

BatchIdle ==
    /\ folder_exists = TRUE /\ s1_lookup_data = <<>> /\ groups = <<>>
    /\ dialogs = <<>> /\ df = <<>> /\ saved = FALSE /\ log = <<>>
    /\ out_dir = <<>> /\ image_count = 0 /\ ret = <<>>
    /\ s1_sheet = [readable |-> FALSE, rows |-> <<>>] /\ excel_data = <<>> /\ s1_files = <<>> /\ processed_count = 0
    /\ workers = <<>>
    /\ pair_mode = <<>> /\ copies = <<>>
    /\ LocalsIdle

----------------------------------------------------------------------------
(* Directory listings                                                      *)

MaxFiles == 12
\* The counts tried: the small ones and the two recommended ones
Counts == (0..MaxFiles) \cup {RECOMMENDED_1PACK, RECOMMENDED_2PACK}

ImgName(i) == <<"I","M","G","_">> \o IntToStr(i) \o <<".","j","p","g">>
XlsxName == <<"r",".","x","l","s","x">>

\* c camera files, enumerated in ascending or descending order, with or
\* without a spreadsheet next to them
Listing(c, order, extra) ==
    [i \in 1..c |-> ImgName(IF order = "asc" THEN i ELSE c + 1 - i)]
    \o (IF extra THEN <<XlsxName>> ELSE <<>>)

----------------------------------------------------------------------------
(* group_images called on a listing                                        *)

InitGroup ==
    /\ pc = "g_call"
    /\ \E c \in Counts, order \in {"asc", "desc"}, extra \in BOOLEAN :
           folder = Listing(c, order, extra)
    /\ pack_mode \in {"1PACK", "2PACK"}
    /\ text = <<>> /\ ext = NoExt
    /\ BatchIdle

GroupCall ==
    /\ pc = "g_call"
    /\ \E ans \in BOOLEAN :
           LET r == group_images(folder, pack_mode, ans)
           IN /\ groups' = r.groups
              /\ dialogs' = r.shown
    /\ pc' = "g_ret"
    /\ UNCHANGED <<folder_exists, folder, pack_mode, s1_lookup_data, df, saved, sn,
                   final_ocr_texts, scores, id_val, lot, tag1, tag2,
                   needs_inspection, new_names, k, log, text, ext,
                   out_dir, image_count, ret,
                   s1_sheet, excel_data, s1_files, processed_count, workers,
                   pair_mode, copies>>

NextGroup == GroupCall

SpecGroup == InitGroup /\ [][NextGroup]_vars

\* The image files of the listing, counted without sorting them
ImageCount ==
    Cardinality({i \in 1..Len(folder) : Lower(Suffix(folder[i])) \in IMG_EXTS})
GroupSize(mode) == IF mode = "1PACK" THEN 2 ELSE 3
Recommended(mode) ==
    IF mode = "1PACK" THEN RECOMMENDED_1PACK ELSE RECOMMENDED_2PACK

\* group_images rejected the batch: there were images and it returned no set
Rejected == groups = <<>> /\ ImageCount > 0

\* C1 as stated: group_images succeeds (does not reject the batch) if and
\* only if the image count is a multiple of the group size of the pack mode.
C1_SucceedsIffDivisible ==
    pc = "g_ret" =>
        (~Rejected <=> ImageCount % GroupSize(pack_mode) = 0)

\* C1 amended: a count that is not a multiple of the group size is always
\* rejected with the count error; a multiple of the group size is not
\* rejected if and only if it is zero, equals the recommended count, or the
\* user answered yes to the warning; every accepted positive count yields
\* count / groupSize sets.
C1_SucceedsIffDivisibleAndConfirmed ==
    pc = "g_ret" =>
        /\ ImageCount % GroupSize(pack_mode) # 0 =>
               Rejected /\ dialogs = <<"showerror_count">>
        /\ ~Rejected <=>
               /\ ImageCount % GroupSize(pack_mode) = 0
               /\ \/ ImageCount = 0
                  \/ ImageCount = Recommended(pack_mode)
                  \/ dialogs = <<"askyesno_yes">>
        /\ ~Rejected => Len(groups) * GroupSize(pack_mode) = ImageCount

\* A count that differs from the recommended one was confirmed and grouped
C1_Witness ==
    /\ pc = "g_ret"
    /\ ImageCount > 0
    /\ ImageCount # Recommended(pack_mode)
    /\ dialogs = <<"askyesno_yes">>
    /\ Len(groups) * GroupSize(pack_mode) = ImageCount

\* C2: every returned set has exactly groupSize members, set g holds the
\* files at places (g-1)*groupSize+1 .. g*groupSize of the natural order
\* (IMG_1, IMG_2, ... for these listings), and all files are covered, so no
\* shorter trailing set exists.
C2_SetsAreConsecutiveSlices ==
    pc = "g_ret" =>
        /\ \A g \in 1..Len(groups) :
              /\ Len(groups[g]) = GroupSize(pack_mode)
              /\ \A j \in 1..GroupSize(pack_mode) :
                    groups[g][j] = ImgName((g - 1) * GroupSize(pack_mode) + j)
        /\ groups # <<>> => Len(groups) * GroupSize(pack_mode) = ImageCount

\* Several sets were cut from a listing enumerated in descending order
C2_Witness ==
    /\ pc = "g_ret"
    /\ Len(groups) >= 3
    /\ folder[1] # ImgName(1)
    /\ groups[2][1] = ImgName(GroupSize(pack_mode) + 1)

----------------------------------------------------------------------------
(* extract_id_lot_tag called on a text                                     *)

Prefixes == { <<>>, <<"n","o","i","s","e"," ">>, <<"x","-","1","2">> }
Codes == { <<>>,
           <<"n","s","h","-","2","5","1","1","-","1","0","7","6","2">>,
           <<"N","S","H","-","2","5","1","1","-","1","0","7","7">>,
           <<"a","b","c","-","1","1","1","1","-","2","2","2","2">>,
           <<"A","A","A","-","3","3","3","3","-","2","2","2","2","3">>,
           <<"N","S","-","2","5","1","1","-","1","0","7","7">>,
           <<"n","s","h","-","2","5","1","-","1","0","7","6","2">>,
           <<"N","S","H","_","2","5","1","1","_","1","0","7","7">> }
Seps == { <<" ">>, <<>> }
Suffixes == { <<>>, <<" ","m","o","r","e">> }

ExtractTexts ==
    { p \o c1 \o s \o c2 \o e :
        p \in Prefixes, c1 \in Codes, s \in Seps, c2 \in Codes, e \in Suffixes }

InitExtract ==
    /\ pc = "x_call"
    /\ text \in ExtractTexts
    /\ ext = NoExt
    /\ folder = <<>> /\ pack_mode = "1PACK"
    /\ BatchIdle

ExtractCall ==
    /\ pc = "x_call"
    /\ ext' = extract_id_lot_tag(text)
    /\ pc' = "x_ret"
    /\ UNCHANGED <<folder_exists, folder, pack_mode, s1_lookup_data, groups,
                   dialogs, df, saved, sn, final_ocr_texts, scores, id_val, lot,
                   tag1, tag2, needs_inspection, new_names, k, log, text,
                   out_dir, image_count, ret,
                   s1_sheet, excel_data, s1_files, processed_count, workers,
                   pair_mode, copies>>

NextExtract == ExtractCall

SpecExtract == InitExtract /\ [][NextExtract]_vars

CharSet == {CharOrder[i] : i \in 1..Len(CharOrder)}

TagExample == <<"n","s","h","-","2","5","1","1","-","1","0","7","6","2">>

\* C3: for a text whose only code is one TAG-shaped substring, such as
\* "noise nsh-2511-10762 more", the tag is that substring upper-cased, the
\* id is its middle segment and the lot is empty.
C3_TagOnlyGivesEmptyLot ==
    (/\ pc = "x_ret"
     /\ \E p \in {<<>>, <<"n","o","i","s","e"," ">>}, e \in Suffixes :
            text = p \o TagExample \o e)
    => /\ ext.tag = Upper(TagExample)
       /\ ext.id = <<"2","5","1","1">>
       /\ ext.lot = <<>>

TagStarts == {i \in 1..Len(text) : MatchesAt(PATTERN_TAG, Upper(text), i)}
LotStarts == {i \in 1..Len(text) : MatchesAt(PATTERN_FULL, Upper(text), i)}
First(S) == CHOOSE i \in S : \A j \in S : i <= j
\* The four digits after the first dash of the code that starts at i
MiddleAt(i) == SubSeq(Upper(text), i + 4, i + 7)

\* C4: the result is three strings; the id is the middle segment of the
\* (leftmost) TAG match when there is one, else of the (leftmost) LOT match
\* when there is one, else empty; with no match all three are empty.
C4_IdPrefersTag ==
    pc = "x_ret" =>
        /\ ext.id \in Seq(CharSet) /\ ext.lot \in Seq(CharSet)
        /\ ext.tag \in Seq(CharSet)
        /\ ext.id = IF TagStarts # {} THEN MiddleAt(First(TagStarts))
                    ELSE IF LotStarts # {} THEN MiddleAt(First(LotStarts))
                    ELSE <<>>
        /\ (TagStarts = {} /\ LotStarts = {}) =>
               ext.id = <<>> /\ ext.lot = <<>> /\ ext.tag = <<>>

\* Both patterns matched, the LOT further left and with another id
C4_Witness ==
    /\ pc = "x_ret"
    /\ TagStarts # {} /\ LotStarts # {}
    /\ First(LotStarts) < First(TagStarts)
    /\ MiddleAt(First(LotStarts)) # MiddleAt(First(TagStarts))
    /\ ext.id = MiddleAt(First(TagStarts))

----------------------------------------------------------------------------
(* main.py: run_s2_batch / _worker_s2 / _rename_images                     *)

OCR_MIN_SCORE == 30

NO_LOT == <<"N","O","_","L","O","T">>
NO_TAG == <<"N","O","_","T","A","G">>
\* The literal main.py writes as inspection_flag (Korean for "check needed")
CHECK_NEEDED == "CHECK_NEEDED"

\* A template with one row more than there are sets
create_excel_template_ExtraRow(num_sets) ==
    [i \in 1..(num_sets + 1) |-> [SN |-> i, ID1 |-> <<>>, Lot1 |-> <<>>,
                                  Tag1 |-> <<>>, Tag2 |-> <<>>, Flag |-> ""]]

\* excel_builder.create_excel_template: num_sets rows (one when num_sets <= 0),
\* numbered 1.., every text column empty
create_excel_template(num_sets) ==
    LET n == IF num_sets <= 0 THEN 1 ELSE num_sets
    IN [i \in 1..n |-> [SN |-> i, ID1 |-> <<>>, Lot1 |-> <<>>, Tag1 |-> <<>>,
                        Tag2 |-> <<>>, Flag |-> ""]]

\* s1_lookup_data.get(sn, {}) is a non-empty dict
HasS1Row(n) == n \in DOMAIN s1_lookup_data
\* s1_data.get(col, "")
S1Get(n, col) == IF HasS1Row(n) THEN s1_lookup_data[n][col] ELSE <<>>

\* x or y on strings
Or(x, y) == IF x # <<>> THEN x ELSE y

\* The minimum of the scores is compared, not their average
AvgBelowMin_AnyBelow(q) ==
    q = <<>> \/ \E i \in 1..Len(q) : q[i] < OCR_MIN_SCORE

\* current_avg_score < OCR_MIN_SCORE, where current_avg_score is
\* sum(scores) / len(scores), or 0.0 for no scores
RECURSIVE Sum(_)
Sum(q) == IF q = <<>> THEN 0 ELSE q[1] + Sum(Tail(q))
AvgBelowMin(q) ==
    IF q = <<>> THEN 0 < OCR_MIN_SCORE ELSE Sum(q) < OCR_MIN_SCORE * Len(q)

\* The fallback fills every field of a set that has an S1 row
UseFallback_Always(l, t, n) == HasS1Row(n)

\* (not lot or not tag1) and s1_data
UseFallback(l, t, n) == (l = <<>> \/ t = <<>>) /\ HasS1Row(n)

\* The S1 value wins over the extracted one
Backfill_LookupFirst(x, n, col) == Or(S1Get(n, col), x)

\* x = x or s1_data.get(col, "")
Backfill(x, n, col) == Or(x, S1Get(n, col))

\* An empty field is left empty
Sentinel_None(x, literal) == x

\* if not x: x = literal
Sentinel(x, literal) == IF x = <<>> THEN literal ELSE x

\* The flag is computed anew from the fields after the fallback
FlagAfterFinal_Recomputed(flag, l, t) == l = <<>> \/ t = <<>>

\* needs_inspection after step 3: forced by an empty lot or tag1, else kept
FlagAfterFinal(flag, l, t) == IF l = <<>> \/ t = <<>> THEN TRUE ELSE flag

\* 1PACK image 2 gets no "-1"; 2PACK image 2 gets tag1
NewNames_Tag1Twice(img_paths, n, mode, r) ==
    LET sn_prefix == IntToStr(n) \o <<".", " ">> \o r.ID1 \o <<"-">> \o r.Lot1
    IN IF mode = "1PACK"
       THEN << sn_prefix \o <<" ", "(">> \o r.Tag1 \o <<")">> \o Suffix(img_paths[1]),
               sn_prefix \o <<" ", "(">> \o r.Tag1 \o <<")">> \o Suffix(img_paths[2]) >>
       ELSE << sn_prefix \o <<" ", "(">> \o r.Tag1 \o <<")">> \o Suffix(img_paths[1]),
               sn_prefix \o <<" ", "(">> \o r.Tag1 \o <<")">> \o Suffix(img_paths[2]),
               sn_prefix \o <<" ", "(">> \o r.Tag1 \o <<",", " ">> \o r.Tag2 \o <<")">>
                   \o Suffix(img_paths[3]) >>

\* new_names of _rename_images for row r of the table
NewNames(img_paths, n, mode, r) ==
    LET sn_prefix == IntToStr(n) \o <<".", " ">> \o r.ID1 \o <<"-">> \o r.Lot1
    IN IF mode = "1PACK"
       THEN << sn_prefix \o <<" ", "(">> \o r.Tag1 \o <<")">> \o Suffix(img_paths[1]),
               sn_prefix \o <<" ", "(">> \o r.Tag1 \o <<")", "-", "1">>
                   \o Suffix(img_paths[2]) >>
       ELSE << sn_prefix \o <<" ", "(">> \o r.Tag1 \o <<")">> \o Suffix(img_paths[1]),
               sn_prefix \o <<" ", "(">> \o r.Tag2 \o <<")">> \o Suffix(img_paths[2]),
               sn_prefix \o <<" ", "(">> \o r.Tag1 \o <<",", " ">> \o r.Tag2 \o <<")">>
                   \o Suffix(img_paths[3]) >>

\* The directory without the entry named x
RECURSIVE Without(_, _)
Without(dir, x) ==
    IF dir = <<>> THEN <<>>
    ELSE (IF dir[1] = x THEN <<>> ELSE <<dir[1]>>) \o Without(Tail(dir), x)
Exists(dir, x) == \E i \in 1..Len(dir) : dir[i] = x

----------------------------------------------------------------------------
(* Inputs of a batch                                                       *)

MaxBatchFiles == 6
MaxLookupSN == 1
\* How many times the operating system refuses a remove or rename in a batch
MaxRenameFailures == 1

\* Camera files of a batch: every fifth one is a .png
BatchName(i) ==
    <<"I","M","G","_">> \o IntToStr(i)
    \o (IF i % 5 = 0 THEN <<".","p","n","g">> ELSE <<".","j","p","g">>)
BatchListing(c) == [i \in 1..c |-> BatchName(c + 1 - i)]

T_BOTH == <<"N","S","H","-","2","5","1","1","-","1","0","7","7"," ",
            "n","s","h","-","2","5","1","1","-","1","0","7","6","2">>
T_LOT == <<"a","b","c","-","1","1","1","1","-","2","2","2","2">>
T_TAG2 == <<"N","S","H","-","2","5","1","1","-","1","0","7","6","3">>

\* What ocr_extract_from_image may return: (text, average confidence)
Readings ==
    { [txt |-> <<>>, score |-> 0],
      [txt |-> T_BOTH, score |-> 90],
      [txt |-> T_BOTH, score |-> 20],
      [txt |-> T_LOT, score |-> 20],
      [txt |-> T_TAG2, score |-> 90] }

FullRow == [ID1 |-> <<"9","9","9","9">>,
            Lot1 |-> <<"X","Y","Z","-","9","9","9","9","-","0","0","0","1">>,
            Tag1 |-> <<"X","Y","Z","-","9","9","9","9","-","0","0","0","1","1">>,
            Tag2 |-> <<"X","Y","Z","-","9","9","9","9","-","0","0","0","1","2">>]
PartialRow == [ID1 |-> <<>>, Lot1 |-> <<>>,
               Tag1 |-> <<"X","Y","Z","-","9","9","9","9","-","0","0","0","1","1">>,
               Tag2 |-> <<>>]

\* The S1 sheet read by _load_s1_data: rows for some of the first SNs
Lookups ==
    { [n \in D |-> r] : D \in SUBSET (1..MaxLookupSN), r \in {FullRow, PartialRow} }

Init ==
    /\ pc = "idle"
    /\ folder_exists \in BOOLEAN
    /\ \E c \in 0..MaxBatchFiles :
           folder = IF folder_exists THEN BatchListing(c) ELSE <<>>
    /\ pack_mode \in {"1PACK", "2PACK"}
    /\ s1_lookup_data \in Lookups
    /\ groups = <<>> /\ dialogs = <<>> /\ df = <<>> /\ saved = FALSE
    /\ log = <<>>
    /\ LocalsIdle
    /\ text = <<>> /\ ext = NoExt
    /\ out_dir = <<>> /\ image_count = 0 /\ ret = <<>>
    /\ s1_sheet = [readable |-> FALSE, rows |-> <<>>] /\ excel_data = <<>> /\ s1_files = <<>> /\ processed_count = 0
    /\ workers = <<>>
    /\ pair_mode = <<>> /\ copies = <<>>

\* run_s2_batch and _worker_s2 up to the loop: folder check, group_images,
\* ask_container_name, create_excel_template
run_s2_batch ==
    /\ pc = "idle"
    /\ \E ans \in BOOLEAN, named \in BOOLEAN :
         IF ~folder_exists
         THEN /\ dialogs' = <<"showerror_folder">>
              /\ pc' = "done"
              /\ UNCHANGED <<groups, df, sn>>
         ELSE LET r == group_images(folder, pack_mode, ans)
              IN /\ groups' = r.groups
                 /\ dialogs' = r.shown
                 /\ IF Len(r.groups) = 0 \/ ~named
                    THEN pc' = "done" /\ UNCHANGED <<df, sn>>
                    ELSE /\ df' = create_excel_template(Len(r.groups))
                         /\ sn' = 1
                         /\ pc' = "ocr"
    /\ UNCHANGED <<folder_exists, folder, pack_mode, s1_lookup_data, saved,
                   final_ocr_texts, scores, id_val, lot, tag1, tag2,
                   needs_inspection, new_names, k, log, text, ext,
                   out_dir, image_count, ret,
                   s1_sheet, excel_data, s1_files, processed_count, workers,
                   pair_mode, copies>>

\* A. one pass of "for img in image_set"
OcrImage ==
    /\ pc = "ocr"
    /\ \E r \in Readings :
         /\ final_ocr_texts' = Append(final_ocr_texts, r.txt)
         /\ scores' = IF r.score > 0 THEN Append(scores, r.score) ELSE scores
    /\ pc' = IF Len(final_ocr_texts) + 1 = Len(groups[sn]) THEN "extract" ELSE "ocr"
    /\ UNCHANGED <<folder_exists, folder, pack_mode, s1_lookup_data, groups,
                   dialogs, df, saved, sn, id_val, lot, tag1, tag2,
                   needs_inspection, new_names, k, log, text, ext,
                   out_dir, image_count, ret,
                   s1_sheet, excel_data, s1_files, processed_count, workers,
                   pair_mode, copies>>

\* The id and lot of image 2 stand in when image 1 gives none
ExtractFields_IdLotFromEither ==
    /\ pc = "extract"
    /\ LET e1 == extract_id_lot_tag(final_ocr_texts[1])
           e2 == IF pack_mode = "2PACK" /\ Len(final_ocr_texts) > 1
                 THEN extract_id_lot_tag(final_ocr_texts[2])
                 ELSE [id |-> <<>>, lot |-> <<>>, tag |-> <<>>]
       IN /\ id_val' = Or(e1.id, e2.id)
          /\ lot' = Or(e1.lot, e2.lot)
          /\ tag1' = e1.tag
          /\ tag2' = e2.tag
    /\ pc' = "check"
    /\ UNCHANGED <<folder_exists, folder, pack_mode, s1_lookup_data, groups,
                   dialogs, df, saved, sn, final_ocr_texts, scores,
                   needs_inspection, new_names, k, log, text, ext,
                   out_dir, image_count, ret,
                   s1_sheet, excel_data, s1_files, processed_count, workers,
                   pair_mode, copies>>

\* B. extract_id_lot_tag of image 1, and of image 2 for tag2 in 2PACK
ExtractFields ==
    /\ pc = "extract"
    /\ LET e1 == extract_id_lot_tag(final_ocr_texts[1])
       IN /\ id_val' = e1.id
          /\ lot' = e1.lot
          /\ tag1' = e1.tag
    /\ tag2' = IF pack_mode = "2PACK" /\ Len(final_ocr_texts) > 1
               THEN extract_id_lot_tag(final_ocr_texts[2]).tag
               ELSE <<>>
    /\ pc' = "check"
    /\ UNCHANGED <<folder_exists, folder, pack_mode, s1_lookup_data, groups,
                   dialogs, df, saved, sn, final_ocr_texts, scores,
                   needs_inspection, new_names, k, log, text, ext,
                   out_dir, image_count, ret,
                   s1_sheet, excel_data, s1_files, processed_count, workers,
                   pair_mode, copies>>

\* 1. low average confidence, or no lot or no tag1
CheckInspection ==
    /\ pc = "check"
    /\ needs_inspection' = (AvgBelowMin(scores) \/ lot = <<>> \/ tag1 = <<>>)
    /\ pc' = "fallback"
    /\ UNCHANGED <<folder_exists, folder, pack_mode, s1_lookup_data, groups,
                   dialogs, df, saved, sn, final_ocr_texts, scores, id_val, lot,
                   tag1, tag2, new_names, k, log, text, ext,
                   out_dir, image_count, ret,
                   s1_sheet, excel_data, s1_files, processed_count, workers,
                   pair_mode, copies>>

\* 2. the S1 fallback
ApplyFallback ==
    /\ pc = "fallback"
    /\ IF UseFallback(lot, tag1, sn)
       THEN /\ id_val' = Backfill(id_val, sn, "ID1")
            /\ lot' = Backfill(lot, sn, "Lot1")
            /\ tag1' = Backfill(tag1, sn, "Tag1")
            /\ tag2' = IF pack_mode = "2PACK" THEN Backfill(tag2, sn, "Tag2")
                       ELSE tag2
       ELSE UNCHANGED <<id_val, lot, tag1, tag2>>
    /\ pc' = "final"
    /\ UNCHANGED <<folder_exists, folder, pack_mode, s1_lookup_data, groups,
                   dialogs, df, saved, sn, final_ocr_texts, scores,
                   needs_inspection, new_names, k, log, text, ext,
                   out_dir, image_count, ret,
                   s1_sheet, excel_data, s1_files, processed_count, workers,
                   pair_mode, copies>>

\* 3. NO_LOT / NO_TAG for fields still empty
FinalCheck ==
    /\ pc = "final"
    /\ lot' = Sentinel(lot, NO_LOT)
    /\ tag1' = Sentinel(tag1, NO_TAG)
    /\ needs_inspection' = FlagAfterFinal(needs_inspection, lot, tag1)
    /\ pc' = "write"
    /\ UNCHANGED <<folder_exists, folder, pack_mode, s1_lookup_data, groups,
                   dialogs, df, saved, sn, final_ocr_texts, scores, id_val, tag2,
                   new_names, k, log, text, ext, out_dir, image_count, ret,
                   s1_sheet, excel_data, s1_files, processed_count, workers,
                   pair_mode, copies>>

\* df.loc[sn - 1, ...] = ...
WriteRow ==
    /\ pc = "write"
    /\ LET inspection_flag == IF needs_inspection THEN CHECK_NEEDED ELSE ""
       IN df' = [df EXCEPT ![sn] =
                   IF pack_mode = "1PACK"
                   THEN [@ EXCEPT !.ID1 = id_val, !.Lot1 = lot, !.Tag1 = tag1,
                                  !.Flag = inspection_flag]
                   ELSE [@ EXCEPT !.ID1 = id_val, !.Lot1 = lot, !.Tag1 = tag1,
                                  !.Tag2 = tag2, !.Flag = inspection_flag]]
    /\ pc' = "rename_begin"
    /\ UNCHANGED <<folder_exists, folder, pack_mode, s1_lookup_data, groups,
                   dialogs, saved, sn, final_ocr_texts, scores, id_val, lot, tag1,
                   tag2, needs_inspection, new_names, k, log, text, ext,
                   out_dir, image_count, ret,
                   s1_sheet, excel_data, s1_files, processed_count, workers,
                   pair_mode, copies>>

\* _rename_images that also marks the row it reads as checked
RenameBegin_WritesRow ==
    /\ pc = "rename_begin"
    /\ new_names' = NewNames(groups[sn], sn, pack_mode, df[sn])
    /\ df' = [df EXCEPT ![sn].Flag = ""]
    /\ k' = 1
    /\ pc' = "rename"
    /\ UNCHANGED <<folder_exists, folder, pack_mode, s1_lookup_data, groups,
                   dialogs, saved, sn, final_ocr_texts, scores, id_val, lot,
                   tag1, tag2, needs_inspection, log, text, ext,
                   out_dir, image_count, ret,
                   s1_sheet, excel_data, s1_files, processed_count, workers,
                   pair_mode, copies>>

\* _rename_images up to its loop: the names, from the row just written
RenameBegin ==
    /\ pc = "rename_begin"
    /\ new_names' = NewNames(groups[sn], sn, pack_mode, df[sn])
    /\ k' = 1
    /\ pc' = "rename"
    /\ UNCHANGED <<folder_exists, folder, pack_mode, s1_lookup_data, groups,
                   dialogs, df, saved, sn, final_ocr_texts, scores, id_val, lot,
                   tag1, tag2, needs_inspection, log, text, ext,
                   out_dir, image_count, ret,
                   s1_sheet, excel_data, s1_files, processed_count, workers,
                   pair_mode, copies>>

\* One pass of "for old, new in zip(img_paths, new_names)": the existing
\* target is removed, then the file is renamed.  os.remove or os.rename may
\* raise OSError (oserr: the file is locked, the disk refuses), and a rename
\* of a file that is no longer there raises; the except clause logs it and
\* the loop goes on.  After the last pass of the last set the loop of
\* _worker_s2 ends; otherwise its next iteration starts.
RenameImage ==
    /\ pc = "rename"
    /\ \E oserr \in {"none", "remove", "rename"} :
         LET old == groups[sn][k]
             new == new_names[k]
             removed == IF Exists(folder, new) THEN Without(folder, new) ELSE folder
         IN /\ oserr # "none" => Len(log) < MaxRenameFailures
            /\ oserr = "remove" => Exists(folder, new)
            /\ IF oserr = "remove"
               THEN /\ folder' = folder
                    /\ log' = Append(log, <<sn, k>>)
               ELSE IF oserr = "none" /\ Exists(removed, old)
               THEN /\ folder' = Append(Without(removed, old), new)
                    /\ log' = log
               ELSE /\ folder' = removed
                    /\ log' = Append(log, <<sn, k>>)
    /\ IF k < Len(groups[sn])
       THEN /\ k' = k + 1
            /\ UNCHANGED <<pc, sn, final_ocr_texts, scores, id_val, lot, tag1,
                           tag2, needs_inspection, new_names>>
       ELSE /\ k' = 0
            /\ new_names' = <<>>
            /\ final_ocr_texts' = <<>>
            /\ scores' = <<>>
            /\ id_val' = <<>> /\ lot' = <<>> /\ tag1' = <<>> /\ tag2' = <<>>
            /\ needs_inspection' = FALSE
            /\ IF sn < Len(groups)
               THEN sn' = sn + 1 /\ pc' = "ocr"
               ELSE sn' = sn /\ pc' = "save"
    /\ UNCHANGED <<folder_exists, pack_mode, s1_lookup_data, groups, dialogs, df,
                   saved, text, ext, out_dir, image_count, ret,
                   s1_sheet, excel_data, s1_files, processed_count, workers,
                   pair_mode, copies>>

\* df.to_excel, which puts the spreadsheet into the image folder, and the
\* closing message
SaveExcel ==
    /\ pc = "save"
    /\ saved' = TRUE
    /\ folder' = IF Exists(folder, XlsxName) THEN folder
                 ELSE Append(folder, XlsxName)
    /\ dialogs' = Append(dialogs, "showinfo_done")
    /\ pc' = "done"
    /\ UNCHANGED <<folder_exists, pack_mode, s1_lookup_data, groups, df,
                   sn, final_ocr_texts, scores, id_val, lot, tag1, tag2,
                   needs_inspection, new_names, k, log, text, ext,
                   out_dir, image_count, ret,
                   s1_sheet, excel_data, s1_files, processed_count, workers,
                   pair_mode, copies>>

\* The handler logs the error and goes on with the next set
PipelineException_Swallowed ==
    /\ pc \in {"ocr", "extract", "check", "fallback", "final", "write",
               "rename_begin", "rename"}
    /\ sn < Len(groups)
    /\ dialogs' = Append(dialogs, "showerror_s2")
    /\ sn' = sn + 1
    /\ pc' = "ocr"
    /\ final_ocr_texts' = <<>> /\ scores' = <<>>
    /\ id_val' = <<>> /\ lot' = <<>> /\ tag1' = <<>> /\ tag2' = <<>>
    /\ needs_inspection' = FALSE /\ new_names' = <<>> /\ k' = 0
    /\ UNCHANGED <<folder_exists, folder, pack_mode, s1_lookup_data, groups, df,
                   saved, log, text, ext, out_dir, image_count, ret,
                   s1_sheet, excel_data, s1_files, processed_count, workers,
                   pair_mode, copies>>

\* An exception raised inside the try block of _worker_s2 and not caught
\* within the set (by ocr_extract_from_image or by _rename_images): the
\* except clause logs it and shows the error, and the handler ends there
\* (pc "failed").  The locals are gone with the handler; sn stays at the set
\* that was running.
PipelineException ==
    /\ pc \in {"ocr", "extract", "check", "fallback", "final", "write",
               "rename_begin", "rename", "save"}
    /\ dialogs' = Append(dialogs, "showerror_s2")
    /\ pc' = "failed"
    /\ final_ocr_texts' = <<>> /\ scores' = <<>>
    /\ id_val' = <<>> /\ lot' = <<>> /\ tag1' = <<>> /\ tag2' = <<>>
    /\ needs_inspection' = FALSE /\ new_names' = <<>> /\ k' = 0
    /\ UNCHANGED <<folder_exists, folder, pack_mode, s1_lookup_data, groups, df,
                   saved, sn, log, text, ext, out_dir, image_count, ret,
                   s1_sheet, excel_data, s1_files, processed_count, workers,
                   pair_mode, copies>>

Next ==
    \/ run_s2_batch
    \/ OcrImage
    \/ ExtractFields
    \/ CheckInspection
    \/ ApplyFallback
    \/ FinalCheck
    \/ WriteRow
    \/ RenameBegin
    \/ RenameImage
    \/ SaveExcel
    \/ PipelineException

Spec == Init /\ [][Next]_vars

----------------------------------------------------------------------------
(* Properties of the batch                                                 *)

\* The row of the current set has been written and its locals are live
RowWritten == pc \in {"rename_begin", "rename"}
\* What extraction gave for the current set, before any fallback
Ex1 == extract_id_lot_tag(final_ocr_texts[1])
ExTag2 == IF pack_mode = "2PACK" THEN extract_id_lot_tag(final_ocr_texts[2]).tag
          ELSE <<>>
\* The rows written so far
WrittenRows ==
    {i \in 1..Len(df) :
        i < sn \/ (i = sn /\ pc \in {"rename_begin", "rename", "save", "done"})}

\* C5: a non-empty extracted id, lot, tag1 or tag2 is the value written to
\* the row, whatever the S1 row holds and whatever the confidence.
C5_FallbackNeverOverwrites ==
    RowWritten =>
        LET e == Ex1
            t2 == ExTag2
        IN /\ e.id # <<>> => df[sn].ID1 = e.id
           /\ e.lot # <<>> => df[sn].Lot1 = e.lot
           /\ e.tag # <<>> => df[sn].Tag1 = e.tag
           /\ t2 # <<>> => df[sn].Tag2 = t2

\* The fallback ran (tag1 came from the S1 row) on a low-confidence set,
\* and the extracted lot and id stayed although the S1 row has others
C5_Witness ==
    /\ RowWritten
    /\ HasS1Row(sn)
    /\ AvgBelowMin(scores)
    /\ Ex1.lot # <<>> /\ Ex1.tag = <<>>
    /\ df[sn].Tag1 = s1_lookup_data[sn].Tag1
    /\ s1_lookup_data[sn].Lot1 # <<>> /\ s1_lookup_data[sn].Lot1 # Ex1.lot
    /\ df[sn].Lot1 = Ex1.lot /\ df[sn].ID1 = Ex1.id

\* C6: every written row has a non-empty Lot1 and Tag1; when extraction and
\* the S1 row both give no lot (tag1), the row holds NO_LOT (NO_TAG) and its
\* inspection flag is set.
C6_SentinelsFillEmptyFields ==
    /\ \A i \in WrittenRows : df[i].Lot1 # <<>> /\ df[i].Tag1 # <<>>
    /\ RowWritten =>
        LET e == Ex1
        IN /\ (e.lot = <<>> /\ S1Get(sn, "Lot1") = <<>>) =>
                  df[sn].Lot1 = NO_LOT /\ df[sn].Flag = CHECK_NEEDED
           /\ (e.tag = <<>> /\ S1Get(sn, "Tag1") = <<>>) =>
                  df[sn].Tag1 = NO_TAG /\ df[sn].Flag = CHECK_NEEDED

\* The S1 row gave a tag1 but no lot: NO_LOT next to the back-filled tag1
C6_Witness ==
    /\ RowWritten
    /\ HasS1Row(sn)
    /\ Ex1.lot = <<>> /\ Ex1.tag = <<>>
    /\ df[sn].Lot1 = NO_LOT
    /\ df[sn].Tag1 = s1_lookup_data[sn].Tag1 /\ df[sn].Tag1 # <<>>
    /\ df[sn].Flag = CHECK_NEEDED

\* C7: within one set, once needs_inspection is true no later step of the
\* set clears it, it is written as the flag, a written flag stays, and a set
\* whose lot or tag1 was missing is written flagged even when back-filled.
\* (A step that ends the handler with an exception is not a step of the set.)
C7_FlagNeverCleared ==
    [][/\ (pc \in {"fallback", "final", "write"} /\ needs_inspection
             /\ pc' # "failed")
            => needs_inspection'
       /\ (pc = "write" /\ needs_inspection /\ pc' # "failed")
            => df'[sn].Flag = CHECK_NEEDED
       /\ \A i \in 1..Len(df) :
              df[i].Flag = CHECK_NEEDED => df'[i].Flag = CHECK_NEEDED
       /\ RowWritten =>
            LET e == Ex1
            IN (e.lot = <<>> \/ e.tag = <<>>) => df[sn].Flag = CHECK_NEEDED]_vars

\* A confident set whose missing tag1 came from the S1 row is flagged
C7_Witness ==
    /\ RowWritten
    /\ ~AvgBelowMin(scores)
    /\ Ex1.lot # <<>> /\ Ex1.tag = <<>>
    /\ HasS1Row(sn)
    /\ df[sn].Tag1 = s1_lookup_data[sn].Tag1 /\ df[sn].Tag1 # <<>>
    /\ df[sn].Lot1 = Ex1.lot
    /\ df[sn].Flag = CHECK_NEEDED

\* C8: with no S1 row for the SN, or with lot and tag1 both extracted,
\* step 4 leaves id, lot, tag1 and tag2 as extracted.
C8_NoFallbackWithoutNeedOrRow ==
    pc = "final" =>
        LET e == Ex1
        IN (~HasS1Row(sn) \/ (e.lot # <<>> /\ e.tag # <<>>)) =>
               /\ id_val = e.id
               /\ lot = e.lot
               /\ tag1 = e.tag
               /\ tag2 = ExTag2

\* A 2PACK set with lot and tag1 but no tag2, and an S1 row that has a Tag2
C8_Witness ==
    /\ pc = "final"
    /\ pack_mode = "2PACK"
    /\ HasS1Row(sn) /\ s1_lookup_data[sn].Tag2 # <<>>
    /\ Ex1.lot # <<>> /\ Ex1.tag # <<>>
    /\ ExTag2 = <<>> /\ tag2 = <<>>

\* The last four characters of a camera file name: its suffix
OwnSuffix(name) == SubSeq(name, Len(name) - 3, Len(name))

\* C9: the targets of _rename_images are the template names built from SN
\* and the reconciled id, lot, tag1 (and tag2), each with the suffix of the
\* image it renames.
C9_TargetsFollowTemplates ==
    pc = "rename" =>
        LET base == IntToStr(sn) \o <<".", " ">> \o id_val \o <<"-">> \o lot
            imgs == groups[sn]
        IN IF pack_mode = "1PACK"
           THEN new_names =
                  << base \o <<" ", "(">> \o tag1 \o <<")">> \o OwnSuffix(imgs[1]),
                     base \o <<" ", "(">> \o tag1 \o <<")", "-", "1">>
                          \o OwnSuffix(imgs[2]) >>
           ELSE new_names =
                  << base \o <<" ", "(">> \o tag1 \o <<")">> \o OwnSuffix(imgs[1]),
                     base \o <<" ", "(">> \o tag2 \o <<")">> \o OwnSuffix(imgs[2]),
                     base \o <<" ", "(">> \o tag1 \o <<",", " ">> \o tag2 \o <<")">>
                          \o OwnSuffix(imgs[3]) >>

\* The second 2PACK set, with two different tags and a .png among its files
C9_Witness ==
    /\ pc = "rename"
    /\ pack_mode = "2PACK"
    /\ sn = 2
    /\ tag2 # <<>> /\ tag1 # tag2
    /\ OwnSuffix(groups[sn][2]) = <<".","p","n","g">>
    /\ new_names[2] = <<"2", ".", " ">> \o id_val \o <<"-">> \o lot \o <<" ", "(">>
                      \o tag2 \o <<")", ".", "p", "n", "g">>

\* C10: the target names of a batch are pairwise distinct: within a set, and
\* no target of a set is a name already present in the folder (the name
\* given to an image of an earlier set) when the renames of the set start.
C10_TargetNamesDistinct ==
    pc = "rename" =>
        /\ \A i, j \in 1..Len(new_names) : i # j => new_names[i] # new_names[j]
        /\ k = 1 => \A i \in 1..Len(new_names) : ~Exists(folder, new_names[i])

\* A row still as create_excel_template made it
RowEmpty(r) ==
    r.ID1 = <<>> /\ r.Lot1 = <<>> /\ r.Tag1 = <<>> /\ r.Tag2 = <<>> /\ r.Flag = ""

\* C11: once the table is created it has exactly one row per image set, its
\* SN column is 1..N in row order, and the row written for the set at
\* position sn is row sn (index sn - 1 of the table): while the set is being
\* renamed that row holds the set's values, and every row of a later set is
\* still empty.
C11_OneRowPerSetDenseSN ==
    df # <<>> =>
        /\ Len(df) = Len(groups)
        /\ \A i \in 1..Len(df) : df[i].SN = i
        /\ \A i \in 1..Len(df) : i > sn => RowEmpty(df[i])
        /\ RowWritten =>
               /\ df[sn].ID1 = id_val /\ df[sn].Lot1 = lot /\ df[sn].Tag1 = tag1
               /\ pack_mode = "2PACK" => df[sn].Tag2 = tag2

\* The third set of a 1PACK batch has been written into the third row
C11_Witness ==
    /\ pc = "rename_begin"
    /\ pack_mode = "1PACK"
    /\ sn = 3 /\ Len(df) = 3
    /\ df[3].SN = 3 /\ df[3].Lot1 = lot /\ lot # <<>>
    /\ ~RowEmpty(df[1]) /\ ~RowEmpty(df[2])

----------------------------------------------------------------------------
(* processing_core.sanitize                                                *)

FORBIDDEN_CHARS == {"<", ">", ":", "\"", "/", "\\", "|", "?", "*"}
\* The characters Python's str.strip() and the regex class \s take for
\* whitespace, as far as the names here contain them
Whitespace == {" ", "\t"}
MAX_NAME_LEN == 180

\* str.strip(chars): the longest slice that neither starts nor ends with one
StripChars(s, chars) ==
    LET keep == {i \in 1..Len(s) : s[i] \notin chars}
    IN IF keep = {} THEN <<>>
       ELSE SubSeq(s, CHOOSE i \in keep : \A j \in keep : i <= j,
                      CHOOSE i \in keep : \A j \in keep : i >= j)

\* re.sub(r"\s+", " ", s): every run of whitespace becomes one space
CollapseWhitespace(s) ==
    LET at == [i \in 1..Len(s) |-> <<i, s[i]>>]
        first == SelectSeq(at, LAMBDA p :
                     \/ p[2] \notin Whitespace
                     \/ p[1] = 1
                     \/ s[p[1] - 1] \notin Whitespace)
    IN [i \in 1..Len(first) |->
            IF first[i][2] \in Whitespace THEN " " ELSE first[i][2]] \o <<>>

\* sanitize(name).  The names here are ASCII, which unicodedata.normalize
\* ('NFC', ...) returns as they are.
sanitize(name) ==
    LET s1 == StripChars(name, Whitespace)
        s2 == SelectSeq(s1, LAMBDA c : c # " ")
        s3 == [i \in 1..Len(s2) |->
                  IF s2[i] \in FORBIDDEN_CHARS THEN "_" ELSE s2[i]] \o <<>>
        s4 == StripChars(CollapseWhitespace(s3), {" ", "."})
    IN SubSeq(s4, 1, IF Len(s4) < MAX_NAME_LEN THEN Len(s4) ELSE MAX_NAME_LEN)

----------------------------------------------------------------------------
(* sanitize called on a name, and again on what it returned                *)

Repeat(c, n) == [i \in 1..n |-> c]

SanitizeHeads == { <<>>, <<" ">>, <<"\t">>, <<".">> }
SanitizeBodies ==
    { <<"a">>, <<"a", " ", "b">>, <<"a", "\t", "b">>, <<"a", "<", "b">>,
      <<"a", " ", " ", "b">>, <<"a", "\t", " ", "\t", "b">>, <<"a", ".", "b">>,
      <<"1", ".", " ", "A", "-", "B", " ", "(", "T", ")">>,
      <<"a", "\\", "b", "*", "?">> }
SanitizeTails == { <<>>, <<" ">>, <<".">>, <<"\t", ".">>, <<".", " ">> }
\* Names of MAX_NAME_LEN characters and more, with a dot, a tab or a letter
\* at the cut
SanitizeLong ==
    { Repeat("a", MAX_NAME_LEN - d) \o m \o e :
        d \in {1, 2}, m \in { <<".">>, <<"\t">>, <<"b">>, <<".", ".">> },
        e \in { <<>>, <<"c">>, <<"c", "d">> } }
SanitizeInputs ==
    { h \o b \o t : h \in SanitizeHeads, b \in SanitizeBodies, t \in SanitizeTails }
    \cup SanitizeLong

InitSanitize ==
    /\ pc = "s_call"
    /\ text \in SanitizeInputs
    /\ ext = NoExt
    /\ folder = <<>> /\ pack_mode = "1PACK"
    /\ BatchIdle

SanitizeCall ==
    /\ pc = "s_call"
    /\ ret' = <<sanitize(text)>>
    /\ pc' = "s_again"
    /\ UNCHANGED <<folder_exists, folder, pack_mode, s1_lookup_data, groups,
                   dialogs, df, saved, sn, final_ocr_texts, scores, id_val, lot,
                   tag1, tag2, needs_inspection, new_names, k, log, text, ext,
                   out_dir, image_count,
                   s1_sheet, excel_data, s1_files, processed_count, workers,
                   pair_mode, copies>>

SanitizeAgain ==
    /\ pc = "s_again"
    /\ ret' = Append(ret, sanitize(ret[1]))
    /\ pc' = "s_ret"
    /\ UNCHANGED <<folder_exists, folder, pack_mode, s1_lookup_data, groups,
                   dialogs, df, saved, sn, final_ocr_texts, scores, id_val, lot,
                   tag1, tag2, needs_inspection, new_names, k, log, text, ext,
                   out_dir, image_count,
                   s1_sheet, excel_data, s1_files, processed_count, workers,
                   pair_mode, copies>>

NextSanitize == SanitizeCall \/ SanitizeAgain

SpecSanitize == InitSanitize /\ [][NextSanitize]_vars

\* C15: sanitize is idempotent: sanitizing what sanitize returned gives it
\* back unchanged, for names with tabs and for names cut at MAX_NAME_LEN too.
C15_SanitizeIdempotent ==
    pc = "s_ret" => ret[2] = ret[1]

----------------------------------------------------------------------------
(* processing_core: ensure_unique, list_images, process_step1, and         *)
(* main.run_s1_batch / _worker_s1 around it                                *)

IMG_WHITELIST == { <<".","j","p","g">>, <<".","j","p","e","g">>, <<".","p","n","g">>,
                   <<".","b","m","p">>, <<".","g","i","f">>, <<".","t","i","f">>,
                   <<".","t","i","f","f">> }

\* _nz(x, default) of a cell whose str() is x (None is the empty string)
_nz(x, default) ==
    LET t == StripChars(x, Whitespace)
    IN IF t = <<>> \/ Lower(t) = <<"n","a","n">> THEN default ELSE t

\* Path.stem: the name without its suffix
Stem(name) == SubSeq(name, 1, Len(name) - Len(Suffix(name)))

\* ensure_unique that returns dst whether it exists or not
ensure_unique_NoCheck(listing, name) == name

\* ensure_unique(dst) in a directory with the given listing: dst when it is
\* free, else the first free stem_i.suffix, i = 1, 2, ...
ensure_unique(listing, name) ==
    IF ~Exists(listing, name) THEN name
    ELSE LET cand(i) == Stem(name) \o <<"_">> \o IntToStr(i) \o Suffix(name)
             free == {i \in 1..(Len(listing) + 1) : ~Exists(listing, cand(i))}
         IN cand(CHOOSE i \in free : \A j \in free : i <= j)

\* processing_core.list_images: the files with a suffix of IMG_WHITELIST,
\* naturally sorted by name
processing_core_list_images(listing) ==
    SortStable(SelectSeq(listing, LAMBDA f : Lower(Suffix(f)) \in IMG_WHITELIST))

\* The rows process_step1 keeps from the sheet
ExcelData(sheet) ==
    LET row(r) == [sn |-> _nz(r.SN, <<"N","O","_","S","N">>),
                   id_val |-> _nz(r.ID1, <<"N","O","_","I","D">>),
                   lot |-> _nz(r.Lot1, NO_LOT),
                   tag |-> _nz(r.Tag1, NO_TAG)]
        all == [i \in 1..Len(sheet) |-> row(sheet[i])]
    IN SelectSeq(all, LAMBDA e : /\ e.sn # <<"N","O","_","S","N">>
                                 /\ e.lot # NO_LOT
                                 /\ e.tag # NO_TAG)

\* f"{sn}. {id_val}-{lot} ({tag})", sanitized, with the suffix of the source
S1NewName(e, src) ==
    sanitize(e.sn \o <<".", " ">> \o e.id_val \o <<"-">> \o e.lot \o <<" ", "(">>
             \o e.tag \o <<")">>) \o Suffix(src)

Min2(a, b) == IF a < b THEN a ELSE b

MaxS1Files == 3
MaxS1Rows == 3

\* A sheet of n rows numbered 1..n; row hole (if any) has no TAG
S1Sheet(n, hole) ==
    [i \in 1..n |-> [SN |-> IntToStr(i), ID1 |-> FullRow.ID1, Lot1 |-> FullRow.Lot1,
                     Tag1 |-> IF i = hole THEN <<" ">> ELSE FullRow.Tag1]]
S1Sheets == { S1Sheet(n, hole) : n \in 0..MaxS1Rows, hole \in 0..MaxS1Rows }

\* The name process_step1 gives the first image, and that name with _i
\* before its suffix
S1FirstName == S1NewName(ExcelData(S1Sheet(1, 0))[1], ImgName(1))
S1FirstNameNumbered(i) ==
    Stem(S1FirstName) \o <<"_">> \o IntToStr(i) \o Suffix(S1FirstName)
\* The output folder is new, or holds names left by earlier runs
S1OutDirs ==
    { <<>>, <<S1FirstName>>, <<S1FirstName, S1FirstNameNumbered(1)>>,
      <<S1FirstNameNumbered(1)>>, <<S1FirstNameNumbered(2), S1FirstName>> }

InitS1 ==
    /\ pc = "s1_idle"
    /\ folder_exists \in BOOLEAN
    /\ \E c \in 0..MaxS1Files, extra \in BOOLEAN :
           folder = IF folder_exists THEN Listing(c, "desc", extra) ELSE <<>>
    /\ s1_sheet \in [readable : {TRUE}, rows : S1Sheets]
                   \cup {[readable |-> FALSE, rows |-> <<>>]}
    /\ out_dir \in S1OutDirs
    /\ pack_mode = "1PACK"
    /\ s1_lookup_data = <<>> /\ groups = <<>> /\ dialogs = <<>> /\ df = <<>>
    /\ saved = FALSE /\ log = <<>> /\ image_count = 0 /\ ret = <<>>
    /\ excel_data = <<>> /\ s1_files = <<>> /\ processed_count = 0
    /\ workers = <<>>
    /\ pair_mode = <<>> /\ copies = <<>>
    /\ text = <<>> /\ ext = NoExt
    /\ LocalsIdle

\* run_s1_batch, _worker_s1 and process_step1 up to its loop
run_s1_batch ==
    /\ pc = "s1_idle"
    /\ IF ~folder_exists
       THEN /\ dialogs' = <<"showerror_input">>
            /\ pc' = "s1_done"
            /\ UNCHANGED <<s1_files, excel_data, k>>
       ELSE /\ dialogs' = <<"showinfo_s1_start">>
            /\ s1_files' = processing_core_list_images(folder)
            /\ IF ~s1_sheet.readable
               THEN /\ pc' = "s1_return"
                    /\ UNCHANGED <<excel_data, k>>
               ELSE /\ excel_data' = ExcelData(s1_sheet.rows)
                    /\ IF Min2(Len(s1_files'), Len(excel_data')) = 0
                       THEN pc' = "s1_return" /\ k' = k
                       ELSE pc' = "s1_copy" /\ k' = 1
    /\ processed_count' = 0
    /\ UNCHANGED <<folder_exists, folder, pack_mode, s1_lookup_data, groups, df,
                   saved, sn, final_ocr_texts, scores, id_val, lot, tag1, tag2,
                   needs_inspection, new_names, log, text, ext, out_dir,
                   image_count, ret, s1_sheet, workers,
                   pair_mode, copies>>

\* One pass of "for i in range(n)".  safe_copy may raise OSError (oserr);
\* nothing in process_step1 catches it, so it leaves the loop and the
\* function and reaches the except clause of _worker_s1.
S1CopyImage ==
    /\ pc = "s1_copy"
    /\ \E oserr \in BOOLEAN :
         LET src == s1_files[k]
             dst == ensure_unique(out_dir, S1NewName(excel_data[k], src))
         IN IF oserr
            THEN /\ log' = Append(log, <<"s1", k>>)
                 /\ dialogs' = Append(dialogs, "showerror_s1")
                 /\ pc' = "s1_done"
                 /\ UNCHANGED <<out_dir, processed_count, k>>
            ELSE /\ out_dir' = Append(out_dir, dst)
                 /\ processed_count' = processed_count + 1
                 /\ IF k < Min2(Len(s1_files), Len(excel_data))
                    THEN k' = k + 1 /\ pc' = "s1_copy"
                    ELSE k' = k /\ pc' = "s1_return"
                 /\ UNCHANGED <<log, dialogs>>
    /\ UNCHANGED <<folder_exists, folder, pack_mode, s1_lookup_data, groups, df,
                   saved, sn, final_ocr_texts, scores, id_val, lot, tag1, tag2,
                   needs_inspection, new_names, text, ext, image_count, ret,
                   s1_sheet, excel_data, s1_files, workers,
                   pair_mode, copies>>

\* The return of process_step1 and the closing message of _worker_s1
S1Return ==
    /\ pc = "s1_return"
    /\ ret' = <<processed_count, Len(s1_files) - processed_count>>
    /\ dialogs' = Append(dialogs, "showinfo_s1_done")
    /\ pc' = "s1_done"
    /\ UNCHANGED <<folder_exists, folder, pack_mode, s1_lookup_data, groups, df,
                   saved, sn, final_ocr_texts, scores, id_val, lot, tag1, tag2,
                   needs_inspection, new_names, k, log, text, ext, out_dir,
                   image_count, s1_sheet, excel_data, s1_files, processed_count, workers,
                   pair_mode, copies>>

NextS1 == run_s1_batch \/ S1CopyImage \/ S1Return

SpecS1 == InitS1 /\ [][NextS1]_vars

\* C12: a failure to copy one image does not abort the batch of
\* process_step1: after the failure is logged the remaining images are still
\* copied, so that when the batch has ended every one of the n images has
\* either been copied or been logged as failed.
C12_CopyFailureDoesNotAbort ==
    (pc = "s1_done" /\ folder_exists /\ s1_sheet.readable) =>
        processed_count + Len(log) = Min2(Len(s1_files), Len(excel_data))

----------------------------------------------------------------------------
(* The batch of run_s2_batch: starting, stopping, order of the steps       *)

\* C13: when the S2 image folder does not exist, or the number of images is
\* not a multiple of the group size of the pack mode, the batch does not
\* start: its only step reports the error and ends the handler, and leaves
\* the folder as it was (nothing renamed or deleted), the result table
\* uncreated and the spreadsheet unwritten.
C13_NoStartOnBadCount ==
    [][ (pc = "idle" /\ (~folder_exists \/ ImageCount % GroupSize(pack_mode) # 0)) =>
            /\ pc' = "done"
            /\ dialogs' \in { <<"showerror_folder">>, <<"showerror_count">> }
            /\ folder' = folder
            /\ groups' = <<>> /\ df' = <<>> /\ saved' = FALSE ]_vars

\* Five images in 2PACK mode: the count error was shown and nothing changed
C13_Witness ==
    /\ pc = "done"
    /\ pack_mode = "2PACK"
    /\ ImageCount = 5
    /\ folder = BatchListing(5)
    /\ dialogs = <<"showerror_count">>
    /\ df = <<>> /\ ~saved

----------------------------------------------------------------------------
(* group_images and the recommended count                                  *)

\* C14: a count that is divisible by the group size but is not the
\* recommended one (40 for 1PACK, 60 for 2PACK) is not an error: the user is
\* asked once, and group_images returns all count / group size sets on yes
\* and no set on no; with the recommended count nothing is asked and all
\* sets are returned.
C14_OffRecommendedAsksOnce ==
    (pc = "g_ret" /\ ImageCount > 0 /\ ImageCount % GroupSize(pack_mode) = 0) =>
        IF ImageCount # Recommended(pack_mode)
        THEN \/ /\ dialogs = <<"askyesno_yes">>
                /\ Len(groups) * GroupSize(pack_mode) = ImageCount
             \/ /\ dialogs = <<"askyesno_no">>
                /\ groups = <<>>
        ELSE /\ dialogs = <<>>
             /\ Len(groups) * GroupSize(pack_mode) = ImageCount

\* Twelve 2PACK images declined: asked, no set returned
C14_Witness ==
    /\ pc = "g_ret"
    /\ pack_mode = "2PACK"
    /\ ImageCount = 12
    /\ dialogs = <<"askyesno_no">>
    /\ groups = <<>>

----------------------------------------------------------------------------
(* report.generate_report: the picture count section                       *)

\* generate_report that expects two pictures per set in every mode
generate_report_TwoPerSet(table, mode, count) ==
    LET expected_images == Len(table) * 2
        diff == count - expected_images
    IN [expected_images |-> expected_images,
        image_count |-> count,
        result |-> IF diff = 0 THEN "OK" ELSE "MISMATCH",
        diff_line |-> IF diff = 0 THEN <<>> ELSE <<diff>>]

\* The lines generate_report writes under "사진 개수 점검": expected and actual
\* count, the result line, and the difference line when there is one
generate_report(table, mode, count) ==
    LET num_sets == Len(table)
        expected_images == IF mode = "1PACK" THEN num_sets * 2 ELSE num_sets * 3
        diff == count - expected_images
    IN [expected_images |-> expected_images,
        image_count |-> count,
        result |-> IF diff = 0 THEN "OK" ELSE "MISMATCH",
        diff_line |-> IF diff = 0 THEN <<>> ELSE <<diff>>]

MaxReportRows == 6
MaxReportImages == 20

\* A result table of n rows
ReportTable(n) ==
    [i \in 1..n |-> [SN |-> i, ID1 |-> <<>>, Lot1 |-> <<>>, Tag1 |-> <<>>,
                     Tag2 |-> <<>>, Flag |-> ""]]

InitReport ==
    /\ pc = "r_call"
    /\ pack_mode \in {"1PACK", "2PACK"}
    /\ image_count \in 0..MaxReportImages
    /\ \E n \in 0..MaxReportRows : df = ReportTable(n)
    /\ folder_exists = TRUE /\ folder = <<>>
    /\ s1_lookup_data = <<>> /\ groups = <<>> /\ dialogs = <<>>
    /\ saved = FALSE /\ log = <<>> /\ out_dir = <<>> /\ ret = <<>>
    /\ s1_sheet = [readable |-> FALSE, rows |-> <<>>]
    /\ excel_data = <<>> /\ s1_files = <<>> /\ processed_count = 0
    /\ workers = <<>>
    /\ pair_mode = <<>> /\ copies = <<>>
    /\ text = <<>> /\ ext = NoExt
    /\ LocalsIdle

ReportCall ==
    /\ pc = "r_call"
    /\ ret' = generate_report(df, pack_mode, image_count)
    /\ pc' = "r_ret"
    /\ UNCHANGED <<folder_exists, folder, pack_mode, s1_lookup_data, groups,
                   dialogs, df, saved, sn, final_ocr_texts, scores, id_val, lot,
                   tag1, tag2, needs_inspection, new_names, k, log, text, ext,
                   out_dir, image_count, s1_sheet, excel_data, s1_files,
                   processed_count, workers,
                   pair_mode, copies>>

NextReport == ReportCall

SpecReport == InitReport /\ [][NextReport]_vars

----------------------------------------------------------------------------
(* list_images called on folders of mixed names                            *)

MaxListLen == 3

ListNames ==
    { <<"I","M","G","_","2",".","j","p","g">>,
      <<"I","M","G","_","1","0",".","j","p","g">>,
      <<"I","M","G","_","1",".","j","p","g">>,
      <<"I","M","G","_","0","1",".","j","p","g">>,
      <<"i","m","g","_","3",".","J","P","G">>,
      <<"1","0",".","j","p","g">>,
      <<"a","1",".","j","p","g">>,
      <<"a","1",".","j","p","g","2",".","j","p","g">>,
      XlsxName }

\* The listings of at most MaxListLen different names
ListFolders ==
    { l \in UNION { [1..n -> ListNames] : n \in 0..MaxListLen } :
        \A i, j \in 1..Len(l) : i # j => l[i] # l[j] }

InitList ==
    /\ pc = "l_call"
    /\ folder \in ListFolders
    /\ pack_mode = "1PACK"
    /\ text = <<>> /\ ext = NoExt
    /\ BatchIdle

ListCall ==
    /\ pc = "l_call"
    /\ ret' = list_images(folder)
    /\ pc' = "l_ret"
    /\ UNCHANGED <<folder_exists, folder, pack_mode, s1_lookup_data, groups,
                   dialogs, df, saved, sn, final_ocr_texts, scores, id_val, lot,
                   tag1, tag2, needs_inspection, new_names, k, log, text, ext,
                   out_dir, image_count, s1_sheet, excel_data, s1_files,
                   processed_count, workers,
                   pair_mode, copies>>

NextList == ListCall

SpecList == InitList /\ [][NextList]_vars

\* Natural order of two names, said by position: the runs at the first
\* position where the keys differ decide, a digit run (even position) by its
\* value and another run (odd position) by its lower-cased text; when no
\* position differs the shorter key is the smaller.
NatLess(a, b) ==
    LET x == _natural_sort_key(a)
        y == _natural_sort_key(b)
        m == IF Len(x) < Len(y) THEN Len(x) ELSE Len(y)
        d == {i \in 1..m : x[i] # y[i]}
    IN IF d = {} THEN Len(x) < Len(y)
       ELSE LET i == CHOOSE j \in d : \A h \in d : j <= h
            IN IF i % 2 = 0 THEN x[i].n < y[i].n ELSE StrLess(x[i].s, y[i].s)

\* Python's < on two keys raises TypeError: at the first position where the
\* elements differ one is an int and the other a str
CompareRaises(x, y) ==
    \E i \in 1..(IF Len(x) < Len(y) THEN Len(x) ELSE Len(y)) :
        /\ \A h \in 1..(i - 1) : x[h] = y[h]
        /\ x[i] # y[i]
        /\ x[i].isnum # y[i].isnum

\* C17: list_images returns the image files of the folder in natural order:
\* no later name is naturally smaller than an earlier one (digit runs by
\* value, other runs case-insensitively, a key that is a proper prefix
\* first); IMG_2, IMG_10, IMG_1 come out as IMG_1, IMG_2, IMG_10; and no two
\* names of a folder have keys whose comparison meets a number and a string.
C17_NaturalOrder ==
    pc = "l_ret" =>
        /\ {ret[i] : i \in 1..Len(ret)}
             = {folder[i] : i \in {h \in 1..Len(folder) :
                                     Lower(Suffix(folder[h])) \in IMG_EXTS}}
        /\ \A i, j \in 1..Len(ret) : i < j => ~NatLess(ret[j], ret[i])
        /\ folder = << ImgName(2), ImgName(10), ImgName(1) >>
             => ret = << ImgName(1), ImgName(2), ImgName(10) >>
        /\ \A i, j \in 1..Len(folder) :
             ~CompareRaises(_natural_sort_key(folder[i]),
                            _natural_sort_key(folder[j]))

\* A key that is a proper prefix of another, a name that starts with digits
\* and an upper-case name, sorted
C17_Witness ==
    /\ pc = "l_ret"
    /\ folder = << <<"a","1",".","j","p","g","2",".","j","p","g">>,
                   <<"a","1",".","j","p","g">>,
                   <<"1","0",".","j","p","g">> >>
    /\ ret = << <<"1","0",".","j","p","g">>,
                <<"a","1",".","j","p","g">>,
                <<"a","1",".","j","p","g","2",".","j","p","g">> >>

----------------------------------------------------------------------------
(* The inspection flag                                                     *)

\* C18: the flag written for a set is set if and only if the average of the
\* positive confidences of its images (0 when there is none) is below
\* OCR_MIN_SCORE, or no lot was extracted from image 1, or no tag1 was
\* extracted from image 1; what the fallback filled in, and an empty tag2,
\* do not enter.  Only positive confidences are averaged.
C18_FlagIffLowAvgOrMissingField ==
    RowWritten =>
        LET e == Ex1
            low == \/ scores = <<>>
                   \/ Sum(scores) < OCR_MIN_SCORE * Len(scores)
        IN /\ \A i \in 1..Len(scores) : scores[i] > 0
           /\ Len(scores) <= Len(groups[sn])
           /\ df[sn].Flag = CHECK_NEEDED <=> (low \/ e.lot = <<>> \/ e.tag = <<>>)

\* A 2PACK set whose second image gave no text: tag2 is empty, one image had
\* no confidence, and the set is not flagged
C18_Witness ==
    /\ pc = "rename_begin"
    /\ pack_mode = "2PACK"
    /\ final_ocr_texts[2] = <<>>
    /\ Len(scores) = 2
    /\ df[sn].Tag2 = <<>>
    /\ df[sn].Flag = ""

----------------------------------------------------------------------------
(* Order of the writes, and a batch stopped by an exception                *)

\* Every image of set i is still in the folder under its camera name
SetUntouched(i) == \A j \in 1..Len(groups[i]) : Exists(folder, groups[i][j])

\* Every image of set i has left its camera name, or its rename was logged
\* as failed
SetRenamed(i) ==
    \A j \in 1..Len(groups[i]) :
        \/ ~Exists(folder, groups[i][j])
        \/ \E h \in 1..Len(log) : log[h] = <<i, j>>

\* C19: the rows are written in increasing SN order and each exactly once:
\* the table changes only when it is created and in the write step of a set,
\* which fills row sn alone, when that row and all later rows are still
\* empty, all earlier rows are filled, the set's images have all been read
\* by OCR and none of them is renamed yet; the rename steps leave the table
\* as it is; and when the loop is over every row is filled.
C19_RowsWrittenOnceInOrder ==
    [][/\ df' # df =>
            \/ pc = "idle" /\ df = <<>>
            \/ /\ pc = "write"
               /\ Len(df') = Len(df)
               /\ \A i \in 1..Len(df) : i # sn => df'[i] = df[i]
               /\ \A i \in 1..Len(df) : i >= sn <=> RowEmpty(df[i])
               /\ Len(final_ocr_texts) = Len(groups[sn])
               /\ SetUntouched(sn)
       /\ (pc = "write" /\ pc' # "failed") => ~RowEmpty(df'[sn])
       /\ pc \in {"rename_begin", "rename"} => df' = df
       /\ pc = "save" => \A i \in 1..Len(df) : ~RowEmpty(df[i])]_vars

\* The second row of a 2PACK batch is written, its images not yet renamed
C19_Witness ==
    /\ pc = "rename_begin"
    /\ pack_mode = "2PACK"
    /\ sn = 2
    /\ ~RowEmpty(df[1]) /\ ~RowEmpty(df[2])
    /\ SetUntouched(2) /\ SetRenamed(1)

\* C20: an exception of the pipeline stops the batch at the set that was
\* running: the step shows the error and ends the handler, leaves the table
\* and the folder as they are, so that the rows of the earlier sets stay
\* filled and their images stay renamed (or logged as failed), and leaves the
\* rows of the later sets empty and their images under their camera names;
\* nothing is saved, and no step follows the end of the handler.
C20_ExceptionStopsBatch ==
    [][/\ pc \notin {"done", "failed"}
       /\ pc' = "failed" => dialogs' = Append(dialogs, "showerror_s2")
       /\ dialogs' = Append(dialogs, "showerror_s2") =>
            /\ pc' = "failed"
            /\ df' = df /\ folder' = folder /\ sn' = sn
            /\ saved' = FALSE
            /\ \A i \in 1..Len(groups) :
                 /\ i < sn => ~RowEmpty(df[i]) /\ SetRenamed(i)
                 /\ i > sn => RowEmpty(df[i]) /\ SetUntouched(i)]_vars

\* A 1PACK batch of three sets stopped in its second set before the write
C20_Witness ==
    /\ pc = "failed"
    /\ pack_mode = "1PACK"
    /\ Len(groups) = 3 /\ sn = 2
    /\ dialogs[Len(dialogs)] = "showerror_s2"
    /\ ~RowEmpty(df[1]) /\ RowEmpty(df[2]) /\ RowEmpty(df[3])
    /\ SetRenamed(1) /\ SetUntouched(2) /\ SetUntouched(3)
    /\ ~saved

----------------------------------------------------------------------------
(* ensure_unique in the copy loop of process_step1                         *)

----------------------------------------------------------------------------
(* run_s1_batch clicked while _worker_s1 threads are running               *)

MaxS1Clicks == 2

InitS1Threads ==
    /\ pc = "gui"
    /\ folder_exists = TRUE
    /\ \E c \in 1..MaxS1Files, extra \in BOOLEAN : folder = Listing(c, "desc", extra)
    /\ s1_sheet \in [readable : {TRUE}, rows : S1Sheets]
    /\ out_dir \in S1OutDirs
    /\ pack_mode = "1PACK"
    /\ s1_lookup_data = <<>> /\ groups = <<>> /\ dialogs = <<>> /\ df = <<>>
    /\ saved = FALSE /\ log = <<>> /\ image_count = 0 /\ ret = <<>>
    /\ excel_data = <<>> /\ s1_files = <<>> /\ processed_count = 0
    /\ workers = <<>>
    /\ pair_mode = <<>> /\ copies = <<>>
    /\ text = <<>> /\ ext = NoExt
    /\ LocalsIdle

\* run_s1_batch: the paths exist, the start message is shown and closed, and
\* a daemon thread is started; nothing looks at the threads already running
ClickS1 ==
    /\ pc = "gui"
    /\ Len(workers) < MaxS1Clicks
    /\ dialogs' = Append(dialogs, "showinfo_s1_start")
    /\ workers' = Append(workers, [pc |-> "start", files |-> <<>>,
                                   excel_data |-> <<>>, i |-> 0, dst |-> <<>>,
                                   processed_count |-> 0])
    /\ UNCHANGED <<pc, folder_exists, folder, pack_mode, s1_lookup_data, groups,
                   df, saved, sn, final_ocr_texts, scores, id_val, lot, tag1,
                   tag2, needs_inspection, new_names, k, log, text, ext, out_dir,
                   image_count, ret, s1_sheet, excel_data, s1_files,
                   processed_count,
                   pair_mode, copies>>

\* process_step1 of thread w up to its loop
WorkerStart(w) ==
    /\ workers[w].pc = "start"
    /\ LET fs == processing_core_list_images(folder)
           rows == ExcelData(s1_sheet.rows)
           n == Min2(Len(fs), Len(rows))
       IN /\ workers' = [workers EXCEPT ![w] =
                 [@ EXCEPT !.files = fs, !.excel_data = rows, !.i = 1,
                           !.pc = IF n = 0 THEN "done" ELSE "check"]]
          /\ dialogs' = IF n = 0 THEN Append(dialogs, "showinfo_s1_done")
                        ELSE dialogs
    /\ UNCHANGED <<pc, folder_exists, folder, pack_mode, s1_lookup_data, groups,
                   df, saved, sn, final_ocr_texts, scores, id_val, lot, tag1,
                   tag2, needs_inspection, new_names, k, log, text, ext, out_dir,
                   image_count, ret, s1_sheet, excel_data, s1_files,
                   processed_count,
                   pair_mode, copies>>

\* dst = ensure_unique(out_dir / new_name) in thread w
WorkerEnsureUnique(w) ==
    /\ workers[w].pc = "check"
    /\ LET me == workers[w]
       IN workers' = [workers EXCEPT ![w] =
              [@ EXCEPT !.dst = ensure_unique(out_dir,
                                    S1NewName(me.excel_data[me.i], me.files[me.i])),
                        !.pc = "copy"]]
    /\ UNCHANGED <<pc, folder_exists, folder, pack_mode, s1_lookup_data, groups,
                   dialogs, df, saved, sn, final_ocr_texts, scores, id_val, lot,
                   tag1, tag2, needs_inspection, new_names, k, log, text, ext,
                   out_dir, image_count, ret, s1_sheet, excel_data, s1_files,
                   processed_count,
                   pair_mode, copies>>

\* safe_copy(src, dst) in thread w, which replaces dst when it exists by
\* now, and the end of the pass; an OSError ends the thread (see S1CopyImage)
WorkerCopy(w) ==
    /\ workers[w].pc = "copy"
    /\ \E oserr \in BOOLEAN :
         LET me == workers[w]
             n == Min2(Len(me.files), Len(me.excel_data))
         IN IF oserr
            THEN /\ workers' = [workers EXCEPT ![w].pc = "done"]
                 /\ log' = Append(log, <<"s1", me.i>>)
                 /\ dialogs' = Append(dialogs, "showerror_s1")
                 /\ UNCHANGED out_dir
            ELSE /\ out_dir' = IF Exists(out_dir, me.dst) THEN out_dir
                               ELSE Append(out_dir, me.dst)
                 /\ log' = log
                 /\ workers' = [workers EXCEPT ![w] =
                        [@ EXCEPT !.processed_count = @ + 1,
                                  !.i = IF me.i < n THEN @ + 1 ELSE @,
                                  !.pc = IF me.i < n THEN "check" ELSE "done"]]
                 /\ dialogs' = IF me.i < n THEN dialogs
                               ELSE Append(dialogs, "showinfo_s1_done")
    /\ UNCHANGED <<pc, folder_exists, folder, pack_mode, s1_lookup_data, groups,
                   df, saved, sn, final_ocr_texts, scores, id_val, lot, tag1,
                   tag2, needs_inspection, new_names, k, text, ext,
                   image_count, ret, s1_sheet, excel_data, s1_files,
                   processed_count,
                   pair_mode, copies>>

NextS1Threads ==
    \/ ClickS1
    \/ \E w \in 1..Len(workers) : WorkerStart(w)
    \/ \E w \in 1..Len(workers) : WorkerEnsureUnique(w)
    \/ \E w \in 1..Len(workers) : WorkerCopy(w)

SpecS1Threads == InitS1Threads /\ [][NextS1Threads]_vars

\* C22: no two S1 batches write to the output folder at the same time: at
\* most one _worker_s1 thread is running, and the name a thread has chosen
\* with ensure_unique is still free when the thread copies to it.
C22_OneBatchPerOutputDir ==
    /\ \A v, w \in 1..Len(workers) :
           (v # w /\ workers[v].pc # "done") => workers[w].pc = "done"
    /\ \A w \in 1..Len(workers) :
           workers[w].pc = "copy" => ~Exists(out_dir, workers[w].dst)


----------------------------------------------------------------------------
(* C23: image 1 alone gives the id and the lot of a 2PACK set              *)

\* What extraction gave for image 2 of the current set
Ex2 == extract_id_lot_tag(final_ocr_texts[2])
\* The id and lot that image 1 and the S1 row alone lead to
Image1Id ==
    IF UseFallback(Ex1.lot, Ex1.tag, sn) THEN Or(Ex1.id, S1Get(sn, "ID1"))
    ELSE Ex1.id
Image1Lot ==
    Sentinel(IF UseFallback(Ex1.lot, Ex1.tag, sn)
             THEN Or(Ex1.lot, S1Get(sn, "Lot1")) ELSE Ex1.lot, NO_LOT)
StartsWith(name, prefix) ==
    Len(name) >= Len(prefix) /\ SubSeq(name, 1, Len(prefix)) = prefix

----------------------------------------------------------------------------
(* C24: the batch on a folder of camera files and on a folder it has       *)
(* renamed before                                                          *)

\* The row of a 1PACK set whose image 1 read T_BOTH, and the names
\* _rename_images gave its two files in an earlier run
RenamedRow ==
    LET e == extract_id_lot_tag(T_BOTH)
    IN [SN |-> 1, ID1 |-> e.id, Lot1 |-> e.lot, Tag1 |-> e.tag, Tag2 |-> <<>>,
        Flag |-> ""]
RenamedListing == NewNames(BatchListing(2), 1, "1PACK", RenamedRow)
RenamedFolders == {RenamedListing, BatchListing(2), BatchListing(3)}

InitRenamed ==
    /\ pc = "idle"
    /\ folder_exists = TRUE
    /\ folder \in RenamedFolders
    /\ pack_mode \in {"1PACK", "2PACK"}
    /\ s1_lookup_data = <<>>
    /\ groups = <<>> /\ dialogs = <<>> /\ df = <<>> /\ saved = FALSE
    /\ log = <<>>
    /\ LocalsIdle
    /\ text = <<>> /\ ext = NoExt
    /\ out_dir = <<>> /\ ret = <<>>
    /\ image_count = Len(list_images(folder))
    /\ s1_sheet = [readable |-> FALSE, rows |-> <<>>] /\ excel_data = <<>>
    /\ s1_files = <<>> /\ processed_count = 0
    /\ workers = <<>>
    /\ pair_mode = <<>> /\ copies = <<>>

SpecRenamed == InitRenamed /\ [][Next]_vars

\* The names given to the images of the sets before set n, and to the
\* first j images of set n
EarlierTargets(n, j) ==
    UNION { {NewNames(groups[i], i, pack_mode, df[i])[h] : h \in 1..Len(groups[i])}
            : i \in 1..(n - 1) }
    \cup {new_names[h] : h \in 1..j}
\* The files of the sets after set n
LaterSources(n) ==
    UNION { {groups[i][h] : h \in 1..Len(groups[i])} : i \in (n + 1)..Len(groups) }

\* C24: the rename never destroys an image of the batch: a pass that
\* deletes its target deletes neither a file of a set not yet processed nor
\* a file renamed earlier in the batch, and when the renames are over and
\* none has raised, the folder holds as many image files as when the batch
\* started.
C24_RenameNeverDestroys ==
    [][ /\ (pc = "rename" /\ Exists(folder, new_names[k]) /\ folder' # folder) =>
              new_names[k] \notin EarlierTargets(sn, k - 1) \cup LaterSources(sn)
        /\ (pc' = "save" /\ log' = <<>>) =>
              Len(list_images(folder')) = image_count'
      ]_vars


----------------------------------------------------------------------------
(* C25: the same names enumerated in another order                         *)

\* The listings that hold the names of listing l, in every order
Reorderings(l) ==
    { [i \in 1..Len(l) |-> l[p[i]]] :
        p \in { q \in [1..Len(l) -> 1..Len(l)] :
                  \A i, j \in 1..Len(l) : i # j => q[i] # q[j] } }

\* C25: list_images and group_images depend on the names in the folder
\* alone: every listing of the same names in another enumeration order
\* gives the same sequence of files and the same sets, also when two names
\* have equal sort keys.
C25_GroupingByNamesAlone ==
    pc = "l_ret" =>
        \A l \in Reorderings(folder) :
            /\ list_images(l) = ret
            /\ group_images(l, pack_mode, TRUE).groups
                 = group_images(folder, pack_mode, TRUE).groups


----------------------------------------------------------------------------
(* process_step2: the rows of the S2 sheet and the image files, copied in   *)
(* blocks of pair                                                          *)

NO_SN == <<"N","O","_","S","N">>

\* rows_data that keeps every row of the sheet
rows_data_AllRows(sheet) ==
    [i \in 1..Len(sheet) |->
        [sn |-> _nz(sheet[i].SN, NO_SN), id_val |-> _nz(sheet[i].ID1, <<>>),
         lot |-> _nz(sheet[i].Lot1, <<>>), tag1 |-> _nz(sheet[i].Tag1, <<>>),
         tag2 |-> _nz(sheet[i].Tag2, <<>>)]]

\* rows_data: the rows of the sheet with an SN, a Lot1 and a Tag1
rows_data(sheet) ==
    LET row(r) == [sn |-> _nz(r.SN, NO_SN), id_val |-> _nz(r.ID1, <<>>),
                   lot |-> _nz(r.Lot1, <<>>), tag1 |-> _nz(r.Tag1, <<>>),
                   tag2 |-> _nz(r.Tag2, <<>>)]
        all == [i \in 1..Len(sheet) |-> row(sheet[i])]
    IN SelectSeq(all, LAMBDA e : e.sn # NO_SN /\ e.lot # <<>> /\ e.tag1 # <<>>)

\* base1, base2, base3 of a row for pair 2 and for pair 3
S2Base(e, pair, shot) ==
    LET head == e.sn \o <<".", " ">> \o e.id_val \o <<"-">> \o e.lot \o <<" ", "(">>
    IN IF pair = 2
       THEN (IF shot = 1 THEN head \o e.tag1 \o <<")">>
             ELSE head \o e.tag1 \o <<")", " ", "-", " ", "1">>)
       ELSE (IF shot = 1 THEN head \o e.tag1 \o <<")">>
             ELSE IF shot = 2 THEN head \o e.tag2 \o <<")">>
             ELSE head \o e.tag1 \o <<",", " ">> \o e.tag2 \o <<")">>)

\* sanitize(base) + src.suffix
S2NewName(e, pair, shot, src) == sanitize(S2Base(e, pair, shot)) \o Suffix(src)

\* The safe_copy calls of the first n shots of one row, the files from
\* position idx + 1 on, into the directory dir: each destination is chosen
\* by ensure_unique in the directory as the earlier shots left it
RECURSIVE S2Shots(_, _, _, _, _, _)
S2Shots(dir, e, pair, files, idx, n) ==
    IF n = 0 THEN <<>>
    ELSE LET before == S2Shots(dir, e, pair, files, idx, n - 1)
             now == dir \o [i \in 1..Len(before) |-> before[i].dst]
             src == files[idx + n]
         IN Append(before,
                   [src |-> src,
                    dst |-> ensure_unique(now, S2NewName(e, pair, n, src))])

MaxS2Files == 7
MaxS2Rows == 3

\* A sheet of n rows numbered 1..n; in row hole (if any) the cell of column
\* col is blank
S2Sheet(n, hole, col) ==
    [i \in 1..n |->
        [SN |-> IF i = hole /\ col = "SN" THEN <<>> ELSE IntToStr(i),
         ID1 |-> FullRow.ID1,
         Lot1 |-> IF i = hole /\ col = "Lot1" THEN <<" ">> ELSE FullRow.Lot1,
         Tag1 |-> IF i = hole /\ col = "Tag1" THEN <<"n", "a", "n">> ELSE FullRow.Tag1,
         Tag2 |-> IF i % 2 = 0 THEN <<>> ELSE FullRow.Tag2]]
S2Sheets ==
    { S2Sheet(n, hole, col) :
        n \in 0..MaxS2Rows, hole \in 0..MaxS2Rows, col \in {"SN", "Lot1", "Tag1"} }

\* The output folder is new, or holds the first name of pair 2 or 3 from an
\* earlier run
S2OutDirs ==
    { <<>>, <<S2NewName(rows_data(S2Sheet(1, 0, "SN"))[1], 2, 1, ImgName(1))>> }

InitStep2 ==
    /\ pc = "p2_call"
    /\ folder_exists = TRUE
    /\ \E c \in 0..MaxS2Files, extra \in BOOLEAN : folder = Listing(c, "desc", extra)
    /\ s1_sheet \in [readable : {TRUE}, rows : S2Sheets]
                   \cup {[readable |-> FALSE, rows |-> <<>>]}
    /\ pair_mode \in { <<"2">>, <<"3">> }
    /\ out_dir \in S2OutDirs
    /\ copies = <<>>
    /\ pack_mode = "1PACK"
    /\ s1_lookup_data = <<>> /\ groups = <<>> /\ dialogs = <<>> /\ df = <<>>
    /\ saved = FALSE /\ log = <<>> /\ image_count = 0 /\ ret = <<>>
    /\ excel_data = <<>> /\ s1_files = <<>> /\ processed_count = 0
    /\ workers = <<>>
    /\ text = <<>> /\ ext = NoExt
    /\ LocalsIdle

\* pair = int(pair_mode)
Pair == StrToInt(pair_mode)

\* process_step2 up to its loop: the files, the workbook, rows_data
process_step2 ==
    /\ pc = "p2_call"
    /\ s1_files' = processing_core_list_images(folder)
    /\ IF ~s1_sheet.readable
       THEN /\ ret' = <<0, Len(s1_files')>>
            /\ pc' = "p2_done"
            /\ UNCHANGED <<excel_data, sn, k, processed_count>>
       ELSE /\ excel_data' = rows_data(s1_sheet.rows)
            /\ sn' = 1
            /\ k' = 0
            /\ processed_count' = 0
            /\ pc' = "p2_loop"
            /\ UNCHANGED ret
    /\ UNCHANGED <<folder_exists, folder, pack_mode, s1_lookup_data, groups,
                   dialogs, df, saved, final_ocr_texts, scores, id_val, lot,
                   tag1, tag2, needs_inspection, new_names, log, text, ext,
                   out_dir, image_count, s1_sheet, workers, pair_mode, copies>>

\* One pass of "for row_tuple in rows_data" that does not break: the shots
\* of the row, each one idx += 1, processed_count += 1, ensure_unique and
\* safe_copy.  safe_copy may raise OSError (at shot raised); nothing in
\* process_step2 catches it, and the function ends there.
Step2Row ==
    /\ pc = "p2_loop"
    /\ sn <= Len(excel_data)
    /\ k + Pair <= Len(s1_files)
    /\ LET shots == IF Pair \in {2, 3} THEN Pair ELSE 0
       IN \E raised \in 0..shots :
            LET done == IF raised = 0 THEN shots ELSE raised - 1
                new == S2Shots(out_dir, excel_data[sn], Pair, s1_files, k, done)
            IN /\ copies' = copies \o new
               /\ out_dir' = out_dir \o [i \in 1..Len(new) |-> new[i].dst]
               /\ k' = k + (IF raised = 0 THEN shots ELSE raised)
               /\ processed_count' =
                      processed_count + (IF raised = 0 THEN shots ELSE raised)
               /\ IF raised = 0
                  THEN sn' = sn + 1 /\ pc' = "p2_loop"
                  ELSE sn' = sn /\ pc' = "p2_raised"
    /\ UNCHANGED <<folder_exists, folder, pack_mode, s1_lookup_data, groups,
                   dialogs, df, saved, final_ocr_texts, scores, id_val, lot,
                   tag1, tag2, needs_inspection, new_names, log, text, ext,
                   image_count, ret, s1_sheet, excel_data, s1_files, workers,
                   pair_mode>>

\* The loop is over, or breaks because idx + pair > len(files): the return
Step2Return ==
    /\ pc = "p2_loop"
    /\ sn > Len(excel_data) \/ k + Pair > Len(s1_files)
    /\ ret' = <<processed_count, Len(s1_files) - processed_count>>
    /\ pc' = "p2_done"
    /\ UNCHANGED <<folder_exists, folder, pack_mode, s1_lookup_data, groups,
                   dialogs, df, saved, sn, final_ocr_texts, scores, id_val, lot,
                   tag1, tag2, needs_inspection, new_names, k, log, text, ext,
                   out_dir, image_count, s1_sheet, excel_data, s1_files,
                   processed_count, workers, pair_mode, copies>>

NextStep2 == process_step2 \/ Step2Row \/ Step2Return

SpecStep2 == InitStep2 /\ [][NextStep2]_vars


\* A cell without a value: empty, white space only, or the text nan
Blank(c) ==
    \/ \A i \in 1..Len(c) : c[i] \in Whitespace
    \/ Lower(StripChars(c, Whitespace)) = <<"n", "a", "n">>
\* The rows of the sheet that count, in sheet order
ValidRows ==
    IF ~s1_sheet.readable THEN <<>>
    ELSE SelectSeq(s1_sheet.rows,
                   LAMBDA r : ~Blank(r.SN) /\ ~Blank(r.Lot1) /\ ~Blank(r.Tag1))
\* The number of whole blocks that get copied
Blocks == Min2(Len(ValidRows), Len(processing_core_list_images(folder)) \div Pair)

\* C26: process_step2 with pair 2 or 3 gives the files of the k-th block of
\* pair files in natural order the names of the k-th valid row of the sheet
\* (a row whose SN, Lot1 and Tag1 are not blank), in file order; it begins
\* a block only while pair files are left, so between two rows and at the
\* return only whole blocks are copied (a block is left unfinished only
\* when safe_copy raises and ends the function); it returns (processed,
\* total - processed) with processed = pair * min(valid rows, total div
\* pair); and every file copied is still in the source folder.
C26_RowsPairedWithBlocks ==
    LET files == processing_core_list_images(folder)
        total == Len(files)
    IN pc # "p2_call" =>
        /\ Len(copies) <= Pair * Blocks
        /\ \A i \in 1..Len(copies) :
             LET r == ValidRows[((i - 1) \div Pair) + 1]
             IN /\ copies[i].src = files[i]
                /\ Exists(folder, copies[i].src)
                /\ Suffix(copies[i].dst) = Suffix(files[i])
                /\ StartsWith(copies[i].dst,
                              sanitize(S2Base([sn |-> r.SN, id_val |-> r.ID1,
                                               lot |-> r.Lot1, tag1 |-> r.Tag1,
                                               tag2 |-> r.Tag2],
                                              Pair, ((i - 1) % Pair) + 1)))
        /\ pc = "p2_loop" => Len(copies) = Pair * (sn - 1)
        /\ pc = "p2_done" =>
             /\ Len(copies) = Pair * Blocks
             /\ ret = << Pair * Blocks, total - Pair * Blocks >>

\* Five files and three rows of which the second has no SN, pair 2: rows 1
\* and 3 name the first four files, the fifth file is left, and the first
\* name was taken in the output folder
C26_Witness ==
    /\ pc = "p2_done"
    /\ Pair = 2
    /\ Len(s1_files) = 5
    /\ s1_sheet.rows = S2Sheet(3, 2, "SN")
    /\ out_dir[1] = S2NewName(excel_data[1], 2, 1, ImgName(1))
    /\ copies[1].dst # out_dir[1]
    /\ ret = <<4, 1>>
    /\ copies[3].src = ImgName(3)
    /\ StartsWith(copies[3].dst, <<"3", ".">>)
    /\ StartsWith(copies[4].dst, <<"3", ".">>)

====
